---- MODULE Spec2Model ----
(***************************************************************************)
(* Verification model of the vrpn-rs wire-protocol core.                   *)
(*                                                                         *)
(* Part 1: the Message frame codec of vrpn-buffer/src/message.rs           *)
(* (MessageSize geometry, Message::buffer_ref, Message::unbuffer_ref).     *)
(*                                                                         *)
(* A sender encodes messages into a sink of fixed capacity; the bytes of   *)
(* the sink are the wire.  A receiver is fed a growing prefix of the wire  *)
(* and runs the frame decoder on the part it has not consumed yet.         *)
(*                                                                         *)
(* usize values: Rust's usize arithmetic panics on overflow when overflow  *)
(* checks are on (debug builds) and wraps when they are off (release       *)
(* builds).  A wrapped value 2^w - k is represented by the integer -k      *)
(* (its two's complement reading); since 2^w is a multiple of 8, the       *)
(* integer arithmetic below (+, -, % 8) agrees with the wrapped one.       *)
(***************************************************************************)
EXTENDS Integers, Sequences, FiniteSets, TLC

\* ------------------------------------------------------------------------
\* Bounds of the model
\* ------------------------------------------------------------------------

\* longest message body, in bytes
MaxBodyLen == 8

\* ------------------------------------------------------------------------
\* Program constants
\* ------------------------------------------------------------------------

\* vrpn_base::constants::ALIGN
ALIGN == 8

\* MessageSize::UNPADDED_HEADER_SIZE = 5 * 4
UNPADDED_HEADER_SIZE == 20

\* size_of::<u32>(): the length field and the sequence number
U32Size == 4

\* IdType = i32: SenderId and TypeId wrap it
IdTypeSize == 4

\* TimeVal: seconds and microseconds, two i32
TimeValSize == 8

\* ------------------------------------------------------------------------
\* Codec primitives (big-endian integers)
\* ------------------------------------------------------------------------

\* the four big-endian bytes of a 32-bit integer (two's complement for a
\* negative i32: \div rounds down and % is non-negative)
BufferInt32(v) ==
    << (v \div 16777216) % 256, (v \div 65536) % 256, (v \div 256) % 256, v % 256 >>

\* u32 read from four big-endian bytes
UnbufferU32(s) ==
    s[1] * 16777216 + s[2] * 65536 + s[3] * 256 + s[4]

\* i32 read from four big-endian bytes
UnbufferI32(s) ==
    IF s[1] >= 128
    THEN (s[1] - 256) * 16777216 + s[2] * 65536 + s[3] * 256 + s[4]
    ELSE UnbufferU32(s)

\* TimeVal: seconds then microseconds
BufferTimeVal(t) ==
    BufferInt32(t[1]) \o BufferInt32(t[2])

UnbufferTimeVal(s) ==
    << UnbufferI32(SubSeq(s, 1, 4)), UnbufferI32(SubSeq(s, 5, 8)) >>

\* n zero bytes
Zeros(n) ==
    [i \in 1..n |-> 0]

\* the first n elements of s / s without its first n elements
Take(s, n) ==
    SubSeq(s, 1, n)

Drop(s, n) ==
    SubSeq(s, n + 1, Len(s))

\* ------------------------------------------------------------------------
\* MessageSize geometry
\* ------------------------------------------------------------------------

compute_padding_Remainder(len) ==
    len % ALIGN

compute_padding(len) ==
    ALIGN - (len % ALIGN)

padded(len) ==
    len + compute_padding(len)

unpadded_message_size_Padded(unpadded_body_size) ==
    unpadded_body_size + padded(UNPADDED_HEADER_SIZE)

\* the value put in the message header's length field
unpadded_message_size(unpadded_body_size) ==
    unpadded_body_size + UNPADDED_HEADER_SIZE

\* the unpadded body size of a message of the given total unpadded size
from_unpadded_message_size(unpadded_msg_size) ==
    unpadded_msg_size - UNPADDED_HEADER_SIZE

padded_body_size(unpadded_body_size) ==
    padded(unpadded_body_size)

padded_message_size(unpadded_body_size) ==
    padded_body_size(unpadded_body_size) + padded(UNPADDED_HEADER_SIZE)

\* BufferSize for Message<U>
buffer_size(m) ==
    padded_message_size(Len(m.data))

\* ------------------------------------------------------------------------
\* Messages
\* ------------------------------------------------------------------------

\* Option<SequenceNumber>: <<n>> is Some(SequenceNumber(n)), <<>> is None
Some(v) ==
    << v >>

None ==
    << >>

unwrap_or(opt, default) ==
    IF opt = None THEN default ELSE opt[1]

\* Message::new(time, message_type, sender, data, sequence_number)
NewMessage(time, message_type, sender, data, sequence_number) ==
    [time |-> time, message_type |-> message_type, sender |-> sender,
     data |-> data, sequence_number |-> sequence_number]

\* the absence of a message in a result
NoMessage ==
    [absent |-> TRUE]

\* body of n bytes whose i-th byte is base + i
BodyOf(n, base) ==
    [i \in 1..n |-> base + i]

Bodies ==
    {BodyOf(n, 0) : n \in 0..MaxBodyLen}

\* The messages the sender encodes: one with a sequence number and every
\* body, one without a sequence number.  Every field value is below 2^31 and
\* every body byte below 128, so that any four bytes of the wire, read as a
\* u32 at any offset, stay within TLC's integers.
Messages ==
    {NewMessage(<<1, 2>>, 0, 0, d, Some(1)) : d \in Bodies}
        \cup {NewMessage(<<3, 999999>>, 4, 7, BodyOf(3, 100), None)}

\* ------------------------------------------------------------------------
\* Message::buffer_ref
\* ------------------------------------------------------------------------

\* the five header fields as Message::buffer_ref writes them
BufferHeader(m) ==
    BufferInt32(unpadded_message_size(Len(m.data)))
        \o BufferTimeVal(m.time)
        \o BufferInt32(m.sender)
        \o BufferInt32(m.message_type)
        \o BufferInt32(unwrap_or(m.sequence_number, 0))

\* BufMutWrapper::pad_to_align: the bytes it wants to put, given the number
\* of bytes buffered since the wrapper was made
pad_to_align(buffered) ==
    Zeros(compute_padding(buffered))

\* Buffer for GenericBody on a sink with remaining_mut() = rem: the body
\* bytes, or OutOfBuffer with nothing put when the sink is too small
BufferGenericBody(data, rem) ==
    IF rem < Len(data)
    THEN [res |-> "OutOfBuffer", out |-> << >>]
    ELSE [res |-> "Ok", out |-> data]

\* Message::buffer_ref on a sink with remaining_mut() = rem.
\* res: "Ok", "OutOfBuffer", or "panic" (BufMut::put_u8 on a full sink);
\* out: the bytes put into the sink before returning or panicking.
\* The size check leaves room for the 24 header bytes: padded(20) >= 24.
BufferMessage(m, rem) ==
    LET size == Len(m.data)
        header == BufferHeader(m)
        pad1 == pad_to_align(Len(header))
        room1 == rem - Len(header)
        room2 == room1 - Len(pad1)
        body == BufferGenericBody(m.data, room2)
        pad2 == pad_to_align(Len(header) + Len(pad1) + Len(body.out))
        room3 == room2 - Len(body.out)
    IN  IF rem < padded_message_size(size)
        THEN [res |-> "OutOfBuffer", out |-> << >>]
        ELSE IF room1 < Len(pad1)
        THEN [res |-> "panic", out |-> header \o Zeros(room1)]
        ELSE IF body.res # "Ok"
        THEN [res |-> body.res, out |-> header \o pad1 \o body.out]
        ELSE IF room3 < Len(pad2)
        THEN [res |-> "panic", out |-> header \o pad1 \o body.out \o Zeros(room3)]
        ELSE [res |-> "Ok", out |-> header \o pad1 \o body.out \o pad2]

\* ------------------------------------------------------------------------
\* Message::unbuffer_ref
\* ------------------------------------------------------------------------

\* builds of the program: overflow checks on (debug) or off (release)
Builds ==
    {"debug", "release"}

\* a < b on usize values, wrapped values being represented by negative ones
ULess(a, b) ==
    IF (a < 0) = (b < 0) THEN a < b ELSE b < 0

\* results of an unbuffer: rest is the buffer as the call leaves it
UnbufferOk(m, rest) ==
    [res |-> "Ok", kind |-> "", n |-> 0, msg |-> m, rest |-> rest]

NeedMoreData(kind, n, rest) ==
    [res |-> "NeedMoreData", kind |-> kind, n |-> n, msg |-> NoMessage, rest |-> rest]

ParseError(rest) ==
    [res |-> "ParseError", kind |-> "", n |-> 0, msg |-> NoMessage, rest |-> rest]

UnbufferPanic(rest) ==
    [res |-> "panic", kind |-> "", n |-> 0, msg |-> NoMessage, rest |-> rest]

\* the blanket Unbuffer of a constant-size type, when the buffer is shorter
\* than len: buf.len() - len underflows (panic with overflow checks, a
\* wrapped count without)
ConstantSizeShort(buf, len, build) ==
    IF build = "debug"
    THEN UnbufferPanic(buf)
    ELSE NeedMoreData("Exactly", Len(buf) - len, buf)

\* OutputResultExtras::map_exactly_err_to_at_least
map_exactly_err_to_at_least(r) ==
    IF r.res = "NeedMoreData" /\ r.kind = "Exactly"
    THEN [r EXCEPT !.kind = "AtLeast"]
    ELSE r

\* sizes of time, sender, message_type and sequence_number
HeaderFieldSizes ==
    << TimeValSize, IdTypeSize, IdTypeSize, U32Size >>

\* bytes taken by the first k of those fields
FieldsEnd(k) ==
    IF k = 0 THEN 0
    ELSE IF k = 1 THEN TimeValSize
    ELSE IF k = 2 THEN TimeValSize + IdTypeSize
    ELSE IF k = 3 THEN TimeValSize + IdTypeSize + IdTypeSize
    ELSE TimeValSize + IdTypeSize + IdTypeSize + U32Size

\* Unbuffer for GenericBody: the body is every byte of the buffer, and the
\* buffer is left empty
UnbufferGenericBody(buf) ==
    [data |-> buf, rest |-> << >>]

\* the blanket Unbuffer of the constant-size type u32: split four bytes off
\* and read them
UnbufferU32Body(buf, build) ==
    IF Len(buf) < U32Size
    THEN ConstantSizeShort(buf, U32Size, build)
    ELSE UnbufferOk(UnbufferU32(Take(buf, U32Size)), Drop(buf, U32Size))

\* the body types U of Message<U> the receiver decodes
BodyTypes ==
    {"GenericBody", "u32"}

\* U::unbuffer_ref on the body region; msg is the body parsed
UnbufferBodyData(U, buf, build) ==
    IF U = "GenericBody"
    THEN UnbufferOk(UnbufferGenericBody(buf).data, UnbufferGenericBody(buf).rest)
    ELSE UnbufferU32Body(buf, build)

\* UnbufferBody without the check that the body parser left no byte
UnbufferBody_Unchecked(U, buf, unpadded_body_len, time, sender, message_type, sequence_number, build) ==
    LET hpad == compute_padding(UNPADDED_HEADER_SIZE)
    IN  IF ULess(Len(buf), hpad)
        THEN UnbufferPanic(buf)
        ELSE LET buf1 == Drop(buf, hpad)
             IN  IF ULess(Len(buf1), unpadded_body_len)
                 THEN UnbufferPanic(buf1)
                 ELSE LET body == UnbufferBodyData(U, Take(buf1, unpadded_body_len), build)
                          buf2 == Drop(buf1, unpadded_body_len)
                          bpad == compute_padding(unpadded_body_len)
                      IN  IF body.res # "Ok"
                          THEN [map_exactly_err_to_at_least(body) EXCEPT !.rest = buf2]
                          ELSE IF ULess(Len(buf2), bpad)
                          THEN UnbufferPanic(buf2)
                          ELSE UnbufferOk(
                                   NewMessage(time, message_type, sender, body.msg,
                                              Some(sequence_number)),
                                   Drop(buf2, bpad))

\* the part of Message::unbuffer_ref after the four header fields were read:
\* drop the header padding, split the body off and parse it as a U, drop the
\* body padding.  Bytes::split_to panics when asked for more than the
\* buffer holds.
UnbufferBody(U, buf, unpadded_body_len, time, sender, message_type, sequence_number, build) ==
    LET hpad == compute_padding(UNPADDED_HEADER_SIZE)
    IN  IF ULess(Len(buf), hpad)
        THEN UnbufferPanic(buf)
        ELSE LET buf1 == Drop(buf, hpad)
             IN  IF ULess(Len(buf1), unpadded_body_len)
                 THEN UnbufferPanic(buf1)
                 ELSE LET body == UnbufferBodyData(U, Take(buf1, unpadded_body_len), build)
                          buf2 == Drop(buf1, unpadded_body_len)
                          bpad == compute_padding(unpadded_body_len)
                      IN  IF body.res # "Ok"
                          THEN [map_exactly_err_to_at_least(body) EXCEPT !.rest = buf2]
                          ELSE IF Len(body.rest) > 0
                          THEN ParseError(buf2)
                          ELSE IF ULess(Len(buf2), bpad)
                          THEN UnbufferPanic(buf2)
                          ELSE UnbufferOk(
                                   NewMessage(time, message_type, sender, body.msg,
                                              Some(sequence_number)),
                                   Drop(buf2, bpad))

\* the part of Message::unbuffer_ref after the length check: the four
\* constant-size header fields, each through the blanket Unbuffer
UnbufferFields(U, buf, unpadded_body_len, build) ==
    IF \E k \in 1..4 : Len(buf) < FieldsEnd(k)
    THEN LET k == CHOOSE j \in 1..4 :
                      /\ Len(buf) < FieldsEnd(j)
                      /\ \A i \in 1..(j - 1) : Len(buf) >= FieldsEnd(i)
         IN  ConstantSizeShort(Drop(buf, FieldsEnd(k - 1)), HeaderFieldSizes[k], build)
    ELSE UnbufferBody(U, Drop(buf, FieldsEnd(4)), unpadded_body_len,
                      UnbufferTimeVal(SubSeq(buf, 1, FieldsEnd(1))),
                      UnbufferI32(SubSeq(buf, FieldsEnd(1) + 1, FieldsEnd(2))),
                      UnbufferI32(SubSeq(buf, FieldsEnd(2) + 1, FieldsEnd(3))),
                      UnbufferU32(SubSeq(buf, FieldsEnd(3) + 1, FieldsEnd(4))),
                      build)

\* Message::<U>::unbuffer_ref on the buffer buf
UnbufferMessage(U, buf, build) ==
    IF Len(buf) < U32Size
    THEN map_exactly_err_to_at_least(ConstantSizeShort(buf, U32Size, build))
    ELSE LET unpadded_len == UnbufferU32(Take(buf, U32Size))
             buf1 == Drop(buf, U32Size)
             unpadded_body_len == unpadded_len - UNPADDED_HEADER_SIZE
             expected_remaining_bytes == padded_message_size(unpadded_body_len) - U32Size
         IN  IF unpadded_len < UNPADDED_HEADER_SIZE /\ build = "debug"
             THEN UnbufferPanic(buf1)
             ELSE IF ULess(Len(buf1), expected_remaining_bytes)
             THEN NeedMoreData("Exactly", expected_remaining_bytes - Len(buf1), buf1)
             ELSE UnbufferFields(U, buf1, unpadded_body_len, build)

\* ========================================================================
\* The cookie (vrpn-buffer/src/cookie.rs)
\* ========================================================================

\* "vrpn: ver. " in ASCII
MAGIC_PREFIX ==
    << 118, 114, 112, 110, 58, 32, 118, 101, 114, 46, 32 >>

COOKIE_SIZE == 24

\* b"\0\0\0\0\0"
COOKIE_PADDING ==
    Zeros(5)

\* b"." and b"  ", the literals between the digit fields
DOT ==
    << 46 >>

SPACES ==
    << 32, 32 >>

\* the bits of a log mode
LogFlags_INCOMING == 1

LogFlags_OUTGOING == 2

\* CookieData { version: Version { major, minor }, log_mode }
CookieData(major, minor, log_mode) ==
    [version |-> [major |-> major, minor |-> minor], log_mode |-> log_mode]

\* the ASCII digit of d
Digit(d) ==
    48 + d

\* "{:02}" of a number below 100
Digits2(v) ==
    << Digit(v \div 10), Digit(v % 10) >>

\* CookieData::to_string: "vrpn: ver. MM.mm  L"
to_string(c) ==
    MAGIC_PREFIX \o Digits2(c.version.major) \o DOT \o Digits2(c.version.minor)
        \o SPACES \o << Digit(unwrap_or(c.log_mode, 0)) >>

\* CookieData::constant_buffer_size, and required_buffer_size through the
\* blanket BufferSize of a constant-size type
constant_buffer_size_CookieData ==
    COOKIE_SIZE

\* buffer_ref that leaves the padding out
BufferCookie_NoPadding(c, rem) ==
    IF rem < constant_buffer_size_CookieData
    THEN [res |-> "OutOfBuffer", out |-> << >>]
    ELSE [res |-> "Ok", out |-> to_string(c)]

\* CookieData::buffer_ref into a sink with rem bytes remaining
BufferCookie(c, rem) ==
    IF rem < constant_buffer_size_CookieData
    THEN [res |-> "OutOfBuffer", out |-> << >>]
    ELSE [res |-> "Ok", out |-> to_string(c) \o COOKIE_PADDING]

\* Error::UnexpectedAsciiData(actual, expected)
UnexpectedAsciiData(actual, expected, rest) ==
    [res |-> "UnexpectedAsciiData", kind |-> "", n |-> 0, msg |-> NoMessage,
     rest |-> rest, actual |-> actual, expected |-> expected]

\* Error::ParseInt(err)
ParseInt(rest) ==
    [res |-> "ParseInt", kind |-> "", n |-> 0, msg |-> NoMessage, rest |-> rest]

\* check_expected that compares nothing
check_expected_Lenient(buf, expected, build) ==
    IF Len(buf) < Len(expected)
    THEN IF build = "debug"
         THEN UnbufferPanic(buf)
         ELSE NeedMoreData("Exactly", Len(buf) - Len(expected), buf)
    ELSE UnbufferOk(NoMessage, Drop(buf, Len(expected)))

\* unbuffer::check_expected: buf.len() - len underflows when the buffer is
\* short (panic with overflow checks, a wrapped count without); otherwise
\* the bytes are split off, whether they match or not
check_expected(buf, expected, build) ==
    IF Len(buf) < Len(expected)
    THEN IF build = "debug"
         THEN UnbufferPanic(buf)
         ELSE NeedMoreData("Exactly", Len(buf) - Len(expected), buf)
    ELSE IF Take(buf, Len(expected)) = expected
         THEN UnbufferOk(NoMessage, Drop(buf, Len(expected)))
         ELSE UnexpectedAsciiData(Take(buf, Len(expected)), expected,
                                  Drop(buf, Len(expected)))

IsDigit(b) ==
    b \in 48..57

RECURSIVE DecValue(_)
\* value of a string of decimal digits
DecValue(s) ==
    IF s = << >> THEN 0
    ELSE 10 * DecValue(SubSeq(s, 1, Len(s) - 1)) + (s[Len(s)] - 48)

\* from_dec: u8::from_str_radix(.., 10), which takes one leading '+', then
\* needs at least one character, all of them digits, and a value of at
\* most 255
from_dec(input) ==
    LET digits == IF Len(input) > 0 /\ input[1] = 43 THEN Drop(input, 1) ELSE input
    IN  IF /\ Len(digits) > 0
           /\ \A i \in DOMAIN digits : IsDigit(digits[i])
           /\ DecValue(digits) <= 255
        THEN [ok |-> TRUE, v |-> DecValue(digits)]
        ELSE [ok |-> FALSE, v |-> 0]

\* dec_digits: Bytes::split_to(n) panics when the buffer holds fewer than n
dec_digits(buf, n) ==
    IF Len(buf) < n
    THEN UnbufferPanic(buf)
    ELSE IF from_dec(Take(buf, n)).ok
         THEN UnbufferOk(from_dec(Take(buf, n)).v, Drop(buf, n))
         ELSE ParseInt(Drop(buf, n))

\* v & flag # 0, for a flag of one bit
HasFlag(v, flag) ==
    (v \div flag) % 2 = 1

\* u8_to_log_mode that forgets the OUTGOING bit
u8_to_log_mode_IncomingOnly(v) ==
    IF HasFlag(v, LogFlags_INCOMING) THEN LogFlags_INCOMING ELSE 0

\* u8_to_log_mode: only the INCOMING and OUTGOING bits are kept
u8_to_log_mode(v) ==
    (IF HasFlag(v, LogFlags_INCOMING) THEN LogFlags_INCOMING ELSE 0)
        + (IF HasFlag(v, LogFlags_OUTGOING) THEN LogFlags_OUTGOING ELSE 0)

\* CookieData::unbuffer_ref: the first step that fails ends the call, with
\* the buffer as that step left it
UnbufferCookie(buf, build) ==
    LET prefix == check_expected(buf, MAGIC_PREFIX, build)
        major == dec_digits(prefix.rest, 2)
        dot == check_expected(major.rest, DOT, build)
        minor == dec_digits(dot.rest, 2)
        spaces == check_expected(minor.rest, SPACES, build)
        log_mode == dec_digits(spaces.rest, 1)
        padding == check_expected(log_mode.rest, COOKIE_PADDING, build)
    IN  IF prefix.res # "Ok" THEN prefix
        ELSE IF major.res # "Ok" THEN major
        ELSE IF dot.res # "Ok" THEN dot
        ELSE IF minor.res # "Ok" THEN minor
        ELSE IF spaces.res # "Ok" THEN spaces
        ELSE IF log_mode.res # "Ok" THEN log_mode
        ELSE IF padding.res # "Ok" THEN padding
        ELSE UnbufferOk(CookieData(major.msg, minor.msg,
                                   Some(u8_to_log_mode(log_mode.msg))),
                        padding.rest)

\* ========================================================================
\* Unbuffering from any Buf (src/unbuffer.rs), and PoseReport
\* (src/tracker.rs)
\* ========================================================================

\* check_unbuffer_remaining: the buffer is only looked at
check_unbuffer_remaining(buf, required_len) ==
    IF Len(buf) < required_len
    THEN NeedMoreData("Exactly", required_len - Len(buf), buf)
    ELSE UnbufferOk(NoMessage, buf)

\* consume_expected: copy_to_bytes advances the buffer before the bytes
\* are compared
consume_expected(buf, expected) ==
    IF check_unbuffer_remaining(buf, Len(expected)).res # "Ok"
    THEN check_unbuffer_remaining(buf, Len(expected))
    ELSE IF Take(buf, Len(expected)) = expected
         THEN UnbufferOk(NoMessage, Drop(buf, Len(expected)))
         ELSE UnexpectedAsciiData(Take(buf, Len(expected)), expected,
                                  Drop(buf, Len(expected)))

\* the constant-size types read here.  An f64 is held as the two 32-bit
\* words << high, low >> of its IEEE 754 bits; a Vec3 is << x, y, z >> and a
\* Quat << x, y, z, w >> of f64.
ConstantSizeTypes ==
    {"Sensor", "f64", "Vec3", "Quat"}

F64Size == 8

constant_buffer_size(T) ==
    CASE T = "Sensor" -> IdTypeSize
      [] T = "f64" -> F64Size
      [] T = "Vec3" -> 3 * F64Size
      [] T = "Quat" -> 4 * F64Size

\* put_f64 and get_f64: the eight bytes of the bits, big-endian
BufferF64(v) ==
    BufferInt32(v[1]) \o BufferInt32(v[2])

UnbufferF64(s) ==
    << UnbufferU32(SubSeq(s, 1, 4)), UnbufferU32(SubSeq(s, 5, 8)) >>

\* buffer_ref of a Sensor, a Vec3 and a Quat
BufferValue(T, v) ==
    CASE T = "Sensor" -> BufferInt32(v)
      [] T = "f64" -> BufferF64(v)
      [] T = "Vec3" -> BufferF64(v[1]) \o BufferF64(v[2]) \o BufferF64(v[3])
      [] T = "Quat" -> BufferF64(v[1]) \o BufferF64(v[2]) \o BufferF64(v[3])
                           \o BufferF64(v[4])

\* unbuffer_constant_size: called with constant_buffer_size(T) bytes
unbuffer_constant_size(T, bytes) ==
    CASE T = "Sensor" -> UnbufferOk(UnbufferI32(bytes), << >>)
      [] T = "f64" -> UnbufferOk(UnbufferF64(bytes), << >>)
      [] T = "Vec3" -> UnbufferOk(<< UnbufferF64(SubSeq(bytes, 1, 8)),
                                     UnbufferF64(SubSeq(bytes, 9, 16)),
                                     UnbufferF64(SubSeq(bytes, 17, 24)) >>, << >>)
      [] T = "Quat" -> UnbufferOk(<< UnbufferF64(SubSeq(bytes, 1, 8)),
                                     UnbufferF64(SubSeq(bytes, 9, 16)),
                                     UnbufferF64(SubSeq(bytes, 17, 24)),
                                     UnbufferF64(SubSeq(bytes, 25, 32)) >>, << >>)

\* the blanket Unbuffer::unbuffer_ref of a constant-size type.
\* buf.take(len) wraps the caller's buffer itself, so copy_to_bytes(len)
\* advances it by len; a NeedMoreData of unbuffer_constant_size is returned
\* from there; otherwise buf.advance(len) advances it by len once more,
\* which panics when fewer than len bytes are left.
unbuffer_ref(T, buf) ==
    LET len == constant_buffer_size(T)
        check == check_unbuffer_remaining(buf, len)
        bytes_subset == Take(buf, len)
        buf1 == Drop(buf, len)
        result == unbuffer_constant_size(T, bytes_subset)
    IN  IF check.res # "Ok" THEN check
        ELSE IF result.res = "NeedMoreData" THEN [result EXCEPT !.rest = buf1]
        ELSE IF Len(buf1) < len THEN UnbufferPanic(buf1)
        ELSE [result EXCEPT !.rest = Drop(buf1, len)]

\* PoseReport { sensor, pos, quat }
PoseReport(sensor, p, quat) ==
    [sensor |-> sensor, pos |-> p, quat |-> quat]

\* PoseReport::constant_buffer_size
constant_buffer_size_PoseReport ==
    constant_buffer_size("Sensor") * 2 + constant_buffer_size("Vec3")
        + constant_buffer_size("Quat")

\* PoseReport::buffer_ref into a sink with rem bytes remaining
BufferPose(p, rem) ==
    IF rem < constant_buffer_size_PoseReport
    THEN [res |-> "OutOfBuffer", out |-> << >>]
    ELSE [res |-> "Ok",
          out |-> BufferValue("Sensor", p.sensor) \o BufferValue("Sensor", p.sensor)
                  \o BufferValue("Vec3", p.pos) \o BufferValue("Quat", p.quat)]

\* PoseReport::unbuffer_ref: the first read that fails ends the call, with
\* the buffer as that read left it
UnbufferPose(buf) ==
    LET check == check_unbuffer_remaining(buf, constant_buffer_size_PoseReport)
        sensor == unbuffer_ref("Sensor", buf)
        padding == unbuffer_ref("Sensor", sensor.rest)
        p == unbuffer_ref("Vec3", padding.rest)
        quat == unbuffer_ref("Quat", p.rest)
    IN  IF check.res # "Ok" THEN check
        ELSE IF sensor.res # "Ok" THEN sensor
        ELSE IF padding.res # "Ok" THEN padding
        ELSE IF p.res # "Ok" THEN p
        ELSE IF quat.res # "Ok" THEN quat
        ELSE UnbufferOk(PoseReport(sensor.msg, p.msg, quat.msg), quat.rest)

\* SizeRequirement::expand
expand(kind) ==
    IF kind = "Exactly" THEN "AtLeast" ELSE kind

\* expand_size_requirement that leaves every error as it is
expand_size_requirement_Identity(e) ==
    e

\* BufferUnbufferError::expand_size_requirement
expand_size_requirement(e) ==
    IF e.res = "NeedMoreData" THEN [e EXCEPT !.kind = expand(e.kind)] ELSE e

\* ------------------------------------------------------------------------
\* unbuffer_typed_message_body
\* ------------------------------------------------------------------------

\* map_need_more_err_to_generic_parse_err: NeedMoreData becomes ParseError
map_need_more_err_to_generic_parse_err(r) ==
    IF r.res = "NeedMoreData"
    THEN ParseError(r.rest)
    ELSE r

\* unbuffer_typed_message_body::<T>(msg): the body bytes of the generic
\* message are parsed as a T, bytes that remain are a ParseError, and the
\* typed message takes the other fields of msg
unbuffer_typed_message_body(T, msg, build) ==
    LET buf == msg.data
        data == map_need_more_err_to_generic_parse_err(UnbufferBodyData(T, buf, build))
    IN  IF data.res # "Ok"
        THEN data
        ELSE IF Len(data.rest) > 0
        THEN ParseError(data.rest)
        ELSE UnbufferOk(NewMessage(msg.time, msg.message_type, msg.sender, data.msg,
                                   msg.sequence_number),
                        data.rest)

\* ========================================================================
\* Handshake (vrpn/src/connect.rs) and the clients' receive loops
\* (src/bin/vrpn_async_std_client.rs, vrpn_async_std_client_simple2.rs)
\* ========================================================================

\* constants::MAGIC_DATA: the version this program speaks, 7.35
MAGIC_DATA ==
    [major |-> 7, minor |-> 35]

\* CookieData::from(constants::MAGIC_DATA) and CookieData::make_cookie():
\* the local cookie, log mode 0
make_cookie ==
    CookieData(MAGIC_DATA.major, MAGIC_DATA.minor, Some(0))

\* check_ver_nonfile_compatible that also wants the minor version equal
check_ver_nonfile_compatible_Strict(version) ==
    version = MAGIC_DATA

\* check_ver_nonfile_compatible: the major version has to be ours
check_ver_nonfile_compatible(version) ==
    version.major = MAGIC_DATA.major

\* io::read_exact of a cookie, and the header read of the receive loop
HEADER_SIZE == 24

\* the size of the buffer one read of the receive loop may fill
READ_SIZE == 2048

\* a message frame as a peer lays it out: the length field
\* (20 + body length), time, sender, type, sequence number, then the body
\* from offset 24 and zero bytes up to the next multiple of 8
PeerFrame(m) ==
    BufferInt32(UNPADDED_HEADER_SIZE + Len(m.data))
        \o BufferTimeVal(m.time)
        \o BufferInt32(m.sender)
        \o BufferInt32(m.message_type)
        \o BufferInt32(unwrap_or(m.sequence_number, 0))
        \o m.data
        \o Zeros((ALIGN - (Len(m.data) % ALIGN)) % ALIGN)

\* MessageSize::try_from_length_field: a length field below the unpadded
\* header size is refused
try_from_length_field(length_field) ==
    IF length_field < UNPADDED_HEADER_SIZE
    THEN [ok |-> FALSE, unpadded_body_size |-> 0]
    ELSE [ok |-> TRUE, unpadded_body_size |-> length_field - UNPADDED_HEADER_SIZE]

\* the padded size of the frame whose body has n bytes
FramePaddedSize(n) ==
    HEADER_SIZE + n + ((ALIGN - (n % ALIGN)) % ALIGN)

\* SequencedGenericMessage::try_read_from_buf on the bytes buf: the length
\* is peeked; a frame that is not whole is NeedMoreData and nothing is
\* consumed; rest is what the cursor has not consumed
try_read_from_buf(buf) ==
    IF Len(buf) < U32Size
    THEN NeedMoreData("Exactly", U32Size - Len(buf), buf)
    ELSE LET size == try_from_length_field(UnbufferU32(Take(buf, U32Size)))
             total == FramePaddedSize(size.unpadded_body_size)
         IN  IF ~size.ok
             THEN ParseError(buf)
             ELSE IF Len(buf) < total
             THEN NeedMoreData("AtLeast", total - Len(buf), buf)
             ELSE UnbufferOk(
                      NewMessage(UnbufferTimeVal(SubSeq(buf, 5, 12)),
                                 UnbufferI32(SubSeq(buf, 17, 20)),
                                 UnbufferI32(SubSeq(buf, 13, 16)),
                                 SubSeq(buf, HEADER_SIZE + 1,
                                        HEADER_SIZE + size.unpadded_body_size),
                                 Some(UnbufferU32(SubSeq(buf, 21, 24)))),
                      Drop(buf, total))

\* ------------------------------------------------------------------------
\* State
\* ------------------------------------------------------------------------

VARIABLES
    build,      \* how the program was built: "debug" or "release"
    cap,        \* capacity of the sink the sender encodes into
    sink,       \* bytes put into the sink so far: the wire
    frames,     \* the messages encoded with Ok, with the place of their frames
    fed,        \* number of wire bytes the receiver has been given
    pos,        \* number of wire bytes the receiver's buffer has advanced over
    received,   \* the messages Message::unbuffer_ref has returned
    needAt,     \* pos at the call of the latest decode, if it ended in NeedMoreData
    last,       \* the latest codec call and its outcome
    panicked,   \* the program has panicked
    prog,       \* the function or program an endpoint runs on a stream
    pc,         \* where that endpoint is in its code
    staged,     \* the bytes its receive loop has staged (bytes_mut)
    eof,        \* the peer has closed the stream
    trail,      \* what the endpoint did on the stream and yielded, in order
    now,        \* seconds since the ping client was made
    first_unanswered_ping   \* the ping client's Option<timestamp>

\* the variables of an endpoint
endpoint ==
    << prog, pc, staged, eof, trail, now, first_unanswered_ping >>

vars ==
    << build, cap, sink, frames, fed, pos, received, needAt, last, panicked,
       endpoint >>

\* no endpoint runs: the codec is called on its own
NoEndpoint ==
    /\ prog = "none"
    /\ pc = "none"
    /\ staged = << >>
    /\ eof = FALSE
    /\ trail = << >>
    /\ now = 0
    /\ first_unanswered_ping = << >>

\* capacities of the sink
SinkCaps ==
    {36, 44, 100}

NoCall ==
    [op |-> "none", res |-> "", kind |-> "", n |-> 0, msg |-> NoMessage,
     posBefore |-> 0, lenBefore |-> 0, needBefore |-> -1]

\* the receiver's buffer: the wire bytes it was given and has not advanced over
Source ==
    SubSeq(sink, pos + 1, fed)

TypeOK ==
    /\ build \in Builds
    /\ cap \in SinkCaps
    /\ Len(sink) <= cap
    /\ fed \in 0..Len(sink)
    /\ pos \in 0..fed
    /\ panicked \in BOOLEAN
    /\ last.op \in {"none", "encode", "feed", "decode"}

Init ==
    /\ build \in Builds
    /\ cap \in SinkCaps
    /\ sink = << >>
    /\ frames = << >>
    /\ fed = 0
    /\ pos = 0
    /\ received = << >>
    /\ needAt = -1
    /\ last = NoCall
    /\ panicked = FALSE
    /\ NoEndpoint

\* ------------------------------------------------------------------------
\* Operations
\* ------------------------------------------------------------------------

\* the sender calls Message::buffer_ref(m, sink), as long as the sink has not
\* been handed to the transport
Encode(m) ==
    /\ ~panicked
    /\ fed = 0
    /\ LET r == BufferMessage(m, cap - Len(sink))
       IN  /\ sink' = sink \o r.out
           /\ panicked' = (r.res = "panic")
           /\ frames' = IF r.res = "Ok"
                        THEN Append(frames, [msg |-> m, start |-> Len(sink),
                                             size |-> Len(r.out)])
                        ELSE frames
           /\ last' = [op |-> "encode", res |-> r.res, kind |-> "", n |-> 0, msg |-> m,
                       posBefore |-> pos, lenBefore |-> Len(sink),
                       needBefore |-> needAt]
    /\ UNCHANGED << endpoint, build, cap, fed, pos, received, needAt >>

\* the sink is frozen and sent: the transport hands the receiver the next
\* byte of the wire
Feed ==
    /\ ~panicked
    /\ fed < Len(sink)
    /\ fed' = fed + 1
    /\ last' = [NoCall EXCEPT !.op = "feed"]
    /\ UNCHANGED << endpoint, build, cap, sink, frames, pos, received, needAt, panicked >>

\* the receiver calls Message::<GenericBody>::unbuffer_ref on its buffer
Decode ==
    /\ ~panicked
    /\ LET r == UnbufferMessage("GenericBody", Source, build)
       IN  /\ pos' = fed - Len(r.rest)
           /\ panicked' = (r.res = "panic")
           /\ received' = IF r.res = "Ok" THEN Append(received, r.msg) ELSE received
           /\ needAt' = IF r.res = "NeedMoreData" THEN pos ELSE -1
           /\ last' = [op |-> "decode", res |-> r.res, kind |-> r.kind, n |-> r.n,
                       msg |-> r.msg, posBefore |-> pos, lenBefore |-> Len(sink),
                       needBefore |-> needAt]
    /\ UNCHANGED << endpoint, build, cap, sink, frames, fed >>

Next ==
    \/ \E m \in Messages : Encode(m)
    \/ Feed
    \/ Decode

Spec ==
    Init /\ [][Next]_vars

\* ------------------------------------------------------------------------
\* Properties of the Message codec
\* ------------------------------------------------------------------------

\* the latest call was Message::buffer_ref / Message::unbuffer_ref
Encoded ==
    last.op = "encode"

Decoded ==
    last.op = "decode"

\* bytes the latest encode put into the sink
Written ==
    Len(sink) - last.lenBefore

\* bytes the receiver's buffer held when the latest decode was called
Available ==
    fed - last.posBefore

\* the frame of the k-th encoded message ends at this wire offset
FrameEnd(k) ==
    frames[k].start + frames[k].size

\* C1: decoding the bytes Message encode produced for a message m that has
\* a sequence number yields a message equal to m.
C1_RoundTrip ==
    \A k \in DOMAIN frames :
        (/\ Decoded
         /\ last.posBefore = frames[k].start
         /\ fed >= FrameEnd(k)
         /\ frames[k].msg.sequence_number # None)
            => (last.res = "Ok" /\ last.msg = frames[k].msg)

\* C2: decode of a strict prefix of an encoded message returns NeedMoreData
\* and leaves the cursor where it was; a decode re-run from that position
\* once the rest of the frame has arrived returns the original message.
C2_Restartable ==
    \A k \in DOMAIN frames :
        /\ (/\ Decoded
            /\ last.posBefore = frames[k].start
            /\ fed < FrameEnd(k))
               => (last.res = "NeedMoreData" /\ pos = last.posBefore)
        /\ (/\ Decoded
            /\ last.needBefore = frames[k].start
            /\ fed >= FrameEnd(k)
            /\ frames[k].msg.sequence_number # None)
               => (/\ last.posBefore = last.needBefore
                   /\ last.res = "Ok"
                   /\ last.msg = frames[k].msg)

\* C3: decode given fewer bytes than the frame's padded message size fails
\* with NeedMoreData(AtLeast(n)), n = padded message size - bytes available.
C3_NeedAtLeast ==
    \A k \in DOMAIN frames :
        (/\ Decoded
         /\ last.posBefore = frames[k].start
         /\ Available < padded_message_size(Len(frames[k].msg.data)))
            => (/\ last.res = "NeedMoreData"
                /\ last.kind = "AtLeast"
                /\ last.n = padded_message_size(Len(frames[k].msg.data)) - Available)

\* C4: after any sequence of Message encodes into an initially empty sink
\* (each of them having returned, with Ok or with an error), the number of
\* bytes written to the sink is a multiple of 8.
C4_Aligned ==
    ~panicked => Len(sink) % 8 = 0

\* two messages were encoded, one of them with a body that needs padding
C4_Witness ==
    /\ ~panicked
    /\ Encoded
    /\ Len(frames) = 2
    /\ \E k \in DOMAIN frames : Len(frames[k].msg.data) % 8 # 0

\* C5: Message encode writes exactly buffer_size(m) bytes.
C5_WritesBufferSize ==
    (Encoded /\ last.res = "Ok") => Written = buffer_size(last.msg)

\* the padding of the specification: (ALIGN - n mod ALIGN) mod ALIGN
SpecPad(n) ==
    (8 - (n % 8)) % 8

\* C6: for a body of b bytes padded_body_size is b + pad(b) and
\* padded_message_size is 24 + b + pad(b), pad(n) = (8 - n mod 8) mod 8.
C6_PaddingFormula ==
    Encoded =>
        LET b == Len(last.msg.data)
        IN  /\ padded_body_size(b) = b + SpecPad(b)
            /\ padded_message_size(b) = 24 + b + SpecPad(b)

\* C7: the first body byte is at offset 24 of the frame, in what encode
\* writes and in what decode reads.
C7_BodyAtOffset24 ==
    /\ (Encoded /\ last.res = "Ok")
          => SubSeq(sink, last.lenBefore + 25,
                    last.lenBefore + 24 + Len(last.msg.data)) = last.msg.data
    /\ (Decoded /\ last.res = "Ok")
          => SubSeq(sink, last.posBefore + 25,
                    last.posBefore + 24 + Len(last.msg.data)) = last.msg.data

\* C8: the length field encode writes is the unpadded body length + 20,
\* 20 being the encoded sizes of length, timestamp, sender id and type id;
\* decode takes the body length to be the length field - 20; and
\* from_unpadded_message_size inverts unpadded_message_size.
C8_LengthField ==
    /\ UNPADDED_HEADER_SIZE = U32Size + TimeValSize + IdTypeSize + IdTypeSize
    /\ (Encoded /\ last.res = "Ok")
          => /\ UnbufferU32(SubSeq(sink, last.lenBefore + 1, last.lenBefore + 4))
                    = Len(last.msg.data) + 20
             /\ from_unpadded_message_size(unpadded_message_size(Len(last.msg.data)))
                    = Len(last.msg.data)
    /\ (Decoded /\ last.res = "Ok")
          => Len(last.msg.data)
                 = UnbufferU32(SubSeq(sink, last.posBefore + 1, last.posBefore + 4)) - 20

\* a message with a body was encoded, and decode returned a message with a body
C8_Witness ==
    /\ Decoded
    /\ last.res = "Ok"
    /\ Len(last.msg.data) > 0
    /\ \E k \in DOMAIN frames :
           frames[k].start = last.posBefore /\ Len(frames[k].msg.data) > 0

\* C9: a successful decode advances the source by exactly the frame's padded
\* message size, to the first byte after the frame, so that frames encoded
\* back to back decode one after the other.
C9_AdvancesByFrame ==
    \A k \in DOMAIN frames :
        (/\ Decoded
         /\ last.res = "Ok"
         /\ last.posBefore = frames[k].start)
            => (/\ pos - last.posBefore = padded_message_size(Len(frames[k].msg.data))
                /\ pos = FrameEnd(k))

\* C10: encode fails with OutOfBuffer and writes nothing when the sink has
\* fewer than padded_message_size bytes remaining; otherwise it succeeds and
\* writes no more than that many bytes.
C10_EncodeRoom ==
    Encoded =>
        LET rem == cap - last.lenBefore
            size == padded_message_size(Len(last.msg.data))
        IN  /\ rem < size => (last.res = "OutOfBuffer" /\ Written = 0)
            /\ rem >= size => (last.res = "Ok" /\ Written <= size)

\* ------------------------------------------------------------------------
\* Part 2: Message frames with a typed body
\* ------------------------------------------------------------------------

\* the receiver calls Message::<u32>::unbuffer_ref on its buffer
DecodeTyped ==
    /\ ~panicked
    /\ LET r == UnbufferMessage("u32", Source, build)
       IN  /\ pos' = fed - Len(r.rest)
           /\ panicked' = (r.res = "panic")
           /\ received' = IF r.res = "Ok" THEN Append(received, r.msg) ELSE received
           /\ needAt' = IF r.res = "NeedMoreData" THEN pos ELSE -1
           /\ last' = [op |-> "decode", res |-> r.res, kind |-> r.kind, n |-> r.n,
                       msg |-> r.msg, posBefore |-> pos, lenBefore |-> Len(sink),
                       needBefore |-> needAt]
    /\ UNCHANGED << endpoint, build, cap, sink, frames, fed >>

NextTyped ==
    \/ \E m \in Messages : Encode(m)
    \/ Feed
    \/ DecodeTyped

SpecTyped ==
    Init /\ [][NextTyped]_vars

\* the body length the frame at the cursor of the latest decode announces
BodyRegionLen ==
    UnbufferU32(SubSeq(sink, last.posBefore + 1, last.posBefore + 4)) - 20

\* C11: Message decode succeeds only when the body parser (here that of
\* u32, which takes four bytes) consumes exactly unpadded_body_len bytes;
\* when the parser leaves a byte of the body of a complete frame unconsumed,
\* decode fails with ParseError and returns no message.
C11_BodyConsumed ==
    /\ (Decoded /\ last.res = "Ok") => BodyRegionLen = 4
    /\ \A k \in DOMAIN frames :
           (/\ Decoded
            /\ last.posBefore = frames[k].start
            /\ fed >= FrameEnd(k)
            /\ Len(frames[k].msg.data) > 4)
               => (last.res = "ParseError" /\ last.msg = NoMessage)

\* a complete frame with a body longer than a u32 was refused, and one with
\* a four-byte body was accepted before
C11_Witness ==
    /\ Decoded
    /\ last.res = "ParseError"
    /\ Len(received) > 0


\* ========================================================================
\* The cookie codec at work
\* ========================================================================

\* capacities of the sink the cookies are written into
CookieCaps ==
    {20, 24, 50}

\* the version numbers and log modes of the cookies the sender encodes
Versions ==
    {<< 7, 35 >>, << 12, 0 >>, << 99, 99 >>}

LogModes ==
    0..3

Cookies ==
    {CookieData(v[1], v[2], Some(l)) : v \in Versions, l \in LogModes}

\* the seven fields of the cookie text, and the bytes of each
CookieFields ==
    {"prefix", "major", "dot", "minor", "spaces", "log_mode", "padding"}

LiteralFields ==
    {"prefix", "dot", "spaces", "padding"}

\* number of fields a peer gets wrong in one cookie
MaxBad == 2

\* what a peer that is not this program may send in place of a field: a
\* wrong literal, or digits that from_dec refuses ("x7"), takes ("+5") or
\* that carry unknown log bits ("7")
BadField(f) ==
    CASE f = "prefix" -> << 118, 114, 112, 110, 58, 32, 86, 101, 114, 46, 32 >>
      [] f = "major" -> << 120, 55 >>
      [] f = "dot" -> << 44 >>
      [] f = "minor" -> << 43, 53 >>
      [] f = "spaces" -> << 32, 9 >>
      [] f = "log_mode" -> << 55 >>
      [] f = "padding" -> << 0, 0, 1, 0, 0 >>

\* the bytes of field f of a well-formed cookie c
GoodField(c, f) ==
    CASE f = "prefix" -> MAGIC_PREFIX
      [] f = "major" -> Digits2(c.version.major)
      [] f = "dot" -> DOT
      [] f = "minor" -> Digits2(c.version.minor)
      [] f = "spaces" -> SPACES
      [] f = "log_mode" -> << Digit(unwrap_or(c.log_mode, 0)) >>
      [] f = "padding" -> COOKIE_PADDING

\* 24 bytes laid out as a cookie, the fields in bad being wrong
WireCookie(c, bad) ==
    LET F(f) == IF f \in bad THEN BadField(f) ELSE GoodField(c, f)
    IN  F("prefix") \o F("major") \o F("dot") \o F("minor") \o F("spaces")
            \o F("log_mode") \o F("padding")

\* the cookie a wrong peer started from
BaseCookie ==
    CookieData(7, 35, Some(0))

BadSets ==
    {bad \in SUBSET CookieFields : Cardinality(bad) \in 1..MaxBad}

InitCookie ==
    /\ build \in Builds
    /\ cap \in CookieCaps
    /\ sink = << >>
    /\ frames = << >>
    /\ fed = 0
    /\ pos = 0
    /\ received = << >>
    /\ needAt = -1
    /\ last = NoCall
    /\ panicked = FALSE
    /\ NoEndpoint

\* the sender calls CookieData::buffer_ref(c, sink)
EncodeCookie(c) ==
    /\ ~panicked
    /\ fed = 0
    /\ LET r == BufferCookie(c, cap - Len(sink))
       IN  /\ sink' = sink \o r.out
           /\ frames' = IF r.res = "Ok"
                        THEN Append(frames, [msg |-> c, start |-> Len(sink),
                                             size |-> Len(r.out), bad |-> {}])
                        ELSE frames
           /\ last' = [op |-> "encode", res |-> r.res, kind |-> "", n |-> 0, msg |-> c,
                       posBefore |-> pos, lenBefore |-> Len(sink),
                       needBefore |-> needAt]
    /\ UNCHANGED << endpoint, build, cap, fed, pos, received, needAt, panicked >>

\* a peer that is not this program puts 24 bytes on the wire that are a
\* cookie but for the fields in bad
PeerWrites(bad) ==
    /\ ~panicked
    /\ fed = 0
    /\ cap - Len(sink) >= COOKIE_SIZE
    /\ sink' = sink \o WireCookie(BaseCookie, bad)
    /\ frames' = Append(frames, [msg |-> BaseCookie, start |-> Len(sink),
                                 size |-> COOKIE_SIZE, bad |-> bad])
    /\ last' = [NoCall EXCEPT !.op = "peer"]
    /\ UNCHANGED << endpoint, build, cap, fed, pos, received, needAt, panicked >>

\* the receiver calls CookieData::unbuffer_ref on its buffer
DecodeCookie ==
    /\ ~panicked
    /\ LET r == UnbufferCookie(Source, build)
       IN  /\ pos' = fed - Len(r.rest)
           /\ panicked' = (r.res = "panic")
           /\ received' = IF r.res = "Ok" THEN Append(received, r.msg) ELSE received
           /\ needAt' = IF r.res = "NeedMoreData" THEN pos ELSE -1
           /\ last' = [op |-> "decode", res |-> r.res, kind |-> r.kind, n |-> r.n,
                       msg |-> r.msg, posBefore |-> pos, lenBefore |-> Len(sink),
                       needBefore |-> needAt,
                       actual |-> IF r.res = "UnexpectedAsciiData" THEN r.actual
                                  ELSE << >>,
                       expected |-> IF r.res = "UnexpectedAsciiData" THEN r.expected
                                    ELSE << >>]
    /\ UNCHANGED << endpoint, build, cap, sink, frames, fed >>

NextCookie ==
    \/ \E c \in Cookies : EncodeCookie(c)
    \/ \E bad \in BadSets : PeerWrites(bad)
    \/ Feed
    \/ DecodeCookie

SpecCookie ==
    InitCookie /\ [][NextCookie]_vars

\* ------------------------------------------------------------------------
\* Properties of the cookie codec
\* ------------------------------------------------------------------------

\* the latest decode started at the first byte of frame k and had the whole
\* frame in its buffer
DecodedFrame(k) ==
    /\ Decoded
    /\ last.posBefore = frames[k].start
    /\ fed >= FrameEnd(k)

\* C12: decoding the 24 bytes cookie encode produced for a cookie (two-digit
\* major, two-digit minor, a log mode) returns Ok with an equal cookie and
\* advances over exactly those 24 bytes, so that a source holding just the
\* cookie is left empty.
C12_CookieRoundTrip ==
    \A k \in DOMAIN frames :
        (DecodedFrame(k) /\ frames[k].bad = {})
            => /\ last.res = "Ok"
               /\ last.msg = frames[k].msg
               /\ pos = last.posBefore + 24
               /\ (fed = FrameEnd(k) => Source = << >>)

C12_Witness ==
    /\ Len(frames) = 2
    /\ DecodedFrame(2)
    /\ frames[2].bad = {}
    /\ frames[2].msg = CookieData(7, 35, Some(3))
    /\ fed = FrameEnd(2)
    /\ last.res = "Ok"

\* the bytes the latest encode put into the sink
WrittenBytes ==
    SubSeq(sink, last.lenBefore + 1, Len(sink))

\* bytes the sink had room for when the latest encode was called
Room ==
    cap - last.lenBefore

\* C13: cookie encode into a sink with room for 24 bytes writes exactly
\* COOKIE_SIZE = 24 bytes, the 19 characters "vrpn: ver. MM.mm  L" and 5 NUL
\* bytes, which is also what the cookie's buffer size reports; into a sink
\* with fewer than 24 bytes remaining it returns OutOfBuffer and writes
\* nothing.
C13_CookieSize ==
    /\ COOKIE_SIZE = 24
    /\ constant_buffer_size_CookieData = COOKIE_SIZE
    /\ Encoded =>
           IF Room < 24
           THEN last.res = "OutOfBuffer" /\ Written = 0
           ELSE /\ last.res = "Ok"
                /\ Written = 24
                /\ SubSeq(WrittenBytes, 1, 11) = MAGIC_PREFIX
                /\ \A i \in {12, 13, 15, 16, 19} : IsDigit(WrittenBytes[i])
                /\ WrittenBytes[14] = 46
                /\ SubSeq(WrittenBytes, 17, 18) = << 32, 32 >>
                /\ SubSeq(WrittenBytes, 20, 24) = << 0, 0, 0, 0, 0 >>

C13_Witness ==
    /\ Encoded
    /\ last.res = "OutOfBuffer"
    /\ Len(frames) = 2
    /\ Room = 2

\* the literal fields of frame k that differ from the expected literal
BadLiterals(k) ==
    frames[k].bad \cap LiteralFields

\* the fields in the order unbuffer_ref reads them
FieldOrder ==
    << "prefix", "major", "dot", "minor", "spaces", "log_mode", "padding" >>

FieldIndex(f) ==
    CHOOSE i \in DOMAIN FieldOrder : FieldOrder[i] = f

\* the first wrong literal of frame k
FirstBadLiteral(k) ==
    CHOOSE f \in BadLiterals(k) :
        \A g \in BadLiterals(k) : FieldIndex(f) <= FieldIndex(g)

\* a digit field read before field f is one from_dec refuses
RefusedDigitsBefore(k, f) ==
    \E g \in frames[k].bad :
        /\ g \notin LiteralFields
        /\ FieldIndex(g) < FieldIndex(f)
        /\ ~from_dec(BadField(g)).ok

\* C14 as stated: decoding 24 bytes in which the magic prefix, the dot, the
\* two spaces or the 5 NUL bytes differ from the expected literal returns
\* UnexpectedAsciiData with the expected and the actual bytes, and no cookie.
C14_LiteralMismatch ==
    \A k \in DOMAIN frames :
        (DecodedFrame(k) /\ BadLiterals(k) # {})
            => /\ last.res = "UnexpectedAsciiData"
               /\ last.expected = GoodField(BaseCookie, FirstBadLiteral(k))
               /\ last.actual = BadField(FirstBadLiteral(k))
               /\ last.msg = NoMessage

\* C14 amended: such input never yields a cookie; the error is that of the
\* first field that fails, in reading order: UnexpectedAsciiData with the
\* expected and the actual bytes of the first wrong literal, unless a digit
\* field before it does not parse, and then ParseInt.
C14_FirstFailureWins ==
    \A k \in DOMAIN frames :
        (DecodedFrame(k) /\ BadLiterals(k) # {})
            => /\ last.msg = NoMessage
               /\ IF RefusedDigitsBefore(k, FirstBadLiteral(k))
                  THEN last.res = "ParseInt"
                  ELSE /\ last.res = "UnexpectedAsciiData"
                       /\ last.expected = GoodField(BaseCookie, FirstBadLiteral(k))
                       /\ last.actual = BadField(FirstBadLiteral(k))

C14_Witness ==
    /\ Len(frames) = 1
    /\ DecodedFrame(1)
    /\ frames[1].bad = {"major", "dot"}
    /\ last.res = "ParseInt"

\* ========================================================================
\* Unbuffering at work
\* ========================================================================

\* capacities of the sink
UnbufferCaps ==
    {60, 70}

\* number of frames put on the wire
MaxFrames == 2

\* f64 values, by their bits: 0.0, 2.0, 3.0, 4.0
F64_0 ==
    << 0, 0 >>

F64_2 ==
    << 1073741824, 0 >>

F64_3 ==
    << 1074266112, 0 >>

F64_4 ==
    << 1074790400, 0 >>

\* the reports the sender encodes
Poses ==
    {PoseReport(3, << F64_2, F64_3, F64_4 >>, << F64_0, F64_0, F64_0, F64_2 >>),
     PoseReport(0, << F64_0, F64_4, F64_0 >>, << F64_3, F64_0, F64_2, F64_0 >>)}

\* b"hello", the literal the receiver expects, and b"help!"
HELLO ==
    << 104, 101, 108, 108, 111 >>

Texts ==
    {HELLO, << 104, 101, 108, 112, 33 >>}

InitUnbuffer ==
    /\ build \in Builds
    /\ cap \in UnbufferCaps
    /\ sink = << >>
    /\ frames = << >>
    /\ fed = 0
    /\ pos = 0
    /\ received = << >>
    /\ needAt = -1
    /\ last = NoCall
    /\ panicked = FALSE
    /\ NoEndpoint

\* the sender calls PoseReport::buffer_ref(p, sink)
EncodePose(p) ==
    /\ ~panicked
    /\ fed = 0
    /\ Len(frames) < MaxFrames
    /\ LET r == BufferPose(p, cap - Len(sink))
       IN  /\ sink' = sink \o r.out
           /\ frames' = IF r.res = "Ok"
                        THEN Append(frames, [msg |-> p, start |-> Len(sink),
                                             size |-> Len(r.out)])
                        ELSE frames
           /\ last' = [op |-> "encode", res |-> r.res, kind |-> "", n |-> 0, msg |-> p,
                       posBefore |-> pos, lenBefore |-> Len(sink),
                       needBefore |-> needAt]
    /\ UNCHANGED << endpoint, build, cap, fed, pos, received, needAt, panicked >>

\* a peer puts a text on the wire
PeerWritesText(t) ==
    /\ ~panicked
    /\ fed = 0
    /\ Len(frames) < MaxFrames
    /\ cap - Len(sink) >= Len(t)
    /\ sink' = sink \o t
    /\ frames' = Append(frames, [msg |-> t, start |-> Len(sink), size |-> Len(t)])
    /\ last' = [NoCall EXCEPT !.op = "peer"]
    /\ UNCHANGED << endpoint, build, cap, fed, pos, received, needAt, panicked >>

\* the receiver's buffer takes the outcome r of the call op, which needed
\* len bytes
Called(op, len, r) ==
    /\ pos' = fed - Len(r.rest)
    /\ panicked' = (r.res = "panic")
    /\ needAt' = IF r.res = "NeedMoreData" THEN pos ELSE -1
    /\ last' = [op |-> op, res |-> r.res, kind |-> r.kind, n |-> r.n,
                msg |-> r.msg, posBefore |-> pos, lenBefore |-> Len(sink),
                needBefore |-> needAt, len |-> len, lifts |-> 0,
                prev |-> NoCall]
    /\ UNCHANGED << endpoint, build, cap, sink, frames, fed >>

\* the receiver calls PoseReport::unbuffer_ref on its buffer
DecodePose ==
    /\ ~panicked
    /\ LET r == UnbufferPose(Source)
       IN  /\ Called("decode", constant_buffer_size_PoseReport, r)
           /\ received' = IF r.res = "Ok" THEN Append(received, r.msg) ELSE received

\* the receiver calls T::unbuffer_ref on its buffer, T a constant-size type
UnbufferRef(T) ==
    /\ ~panicked
    /\ Called("unbuffer_ref", constant_buffer_size(T), unbuffer_ref(T, Source))
    /\ UNCHANGED received

\* the receiver calls consume_expected(buf, b"hello")
ConsumeExpected ==
    /\ ~panicked
    /\ Called("consume_expected", Len(HELLO), consume_expected(Source, HELLO))
    /\ UNCHANGED received

\* the receiver calls u32::unbuffer of vrpn-buffer on its buffer
UnbufferU32Bytes ==
    /\ ~panicked
    /\ Called("unbuffer", U32Size, UnbufferU32Body(Source, build))
    /\ UNCHANGED received

\* the receiver calls check_expected(buf, b"hello") of vrpn-buffer
CheckExpected ==
    /\ ~panicked
    /\ Called("check_expected", Len(HELLO), check_expected(Source, HELLO, build))
    /\ UNCHANGED received

\* what a call returned, as the record of the latest call holds it
Outcome(call) ==
    [res |-> call.res, kind |-> call.kind, n |-> call.n, msg |-> call.msg]

\* the caller lifts the error the latest call returned
ExpandSizeRequirement ==
    /\ ~panicked
    /\ last.op \in {"decode", "unbuffer_ref", "consume_expected"}
    /\ last.res # "Ok"
    /\ last.lifts < 2
    /\ last' = [expand_size_requirement(last) EXCEPT !.lifts = @ + 1,
                                                      !.prev = Outcome(last)]
    /\ UNCHANGED << endpoint, build, cap, sink, frames, fed, pos, received, needAt, panicked >>

\* the caller lifts the result the latest call of vrpn-buffer returned
MapExactlyErrToAtLeast ==
    /\ ~panicked
    /\ last.op \in {"unbuffer", "check_expected"}
    /\ last.lifts < 2
    /\ last' = [map_exactly_err_to_at_least(last) EXCEPT !.lifts = @ + 1,
                                                          !.prev = Outcome(last)]
    /\ UNCHANGED << endpoint, build, cap, sink, frames, fed, pos, received, needAt, panicked >>

NextUnbuffer ==
    \/ \E p \in Poses : EncodePose(p)
    \/ \E t \in Texts : PeerWritesText(t)
    \/ Feed
    \/ DecodePose
    \/ \E T \in {"Sensor", "f64"} : UnbufferRef(T)
    \/ ConsumeExpected
    \/ UnbufferU32Bytes
    \/ CheckExpected
    \/ ExpandSizeRequirement
    \/ MapExactlyErrToAtLeast

SpecUnbuffer ==
    InitUnbuffer /\ [][NextUnbuffer]_vars

\* ------------------------------------------------------------------------
\* Properties of unbuffering
\* ------------------------------------------------------------------------

\* the latest step was a call that reads from the receiver's buffer
ReadCalled ==
    /\ last.op \in {"decode", "unbuffer_ref", "consume_expected", "unbuffer",
                    "check_expected"}
    /\ last.lifts = 0

\* C15: a read that needs L bytes from a buffer holding r < L bytes returns
\* NeedMoreData(Exactly(L - r)), for the constant-size unbuffer and
\* check_expected of vrpn-buffer and for the reads behind
\* check_unbuffer_remaining alike.
C15_ExactlyMissing ==
    (ReadCalled /\ Available < last.len)
        => /\ last.res = "NeedMoreData"
           /\ last.kind = "Exactly"
           /\ last.n = last.len - Available


\* C16: cookie decode of a source that starts at the first byte of a cookie
\* and holds fewer than its 24 bytes returns NeedMoreData: it does not
\* panic and returns no cookie.
C16_ShortCookie ==
    \A k \in DOMAIN frames :
        (/\ Decoded
         /\ last.posBefore = frames[k].start
         /\ fed < FrameEnd(k))
            => /\ last.res = "NeedMoreData"
               /\ last.msg = NoMessage
               /\ ~panicked

\* the latest step was a call of src/unbuffer.rs or PoseReport::unbuffer_ref
UnbufferRefCalled ==
    /\ last.op \in {"decode", "unbuffer_ref", "consume_expected"}
    /\ last.lifts = 0

\* C17: when unbuffer_ref or consume_expected returns an error, NeedMoreData
\* or any other, the buffer is where it was before the call.
C17_ErrorKeepsPosition ==
    (UnbufferRefCalled /\ last.res \notin {"Ok", "panic"})
        => pos = last.posBefore

\* C18: a read that succeeds advances the buffer by exactly the size it
\* needed: consume_expected by expected.len(), unbuffer_ref of a
\* constant-size type and u32::unbuffer of vrpn-buffer by
\* constant_buffer_size().
C18_AdvancesBySize ==
    (/\ ReadCalled
     /\ last.op \in {"unbuffer_ref", "consume_expected", "unbuffer", "check_expected"}
     /\ Available >= last.len)
        => /\ last.res # "panic"
           /\ last.res = "Ok" => pos = last.posBefore + last.len

\* what lifting makes of the result r
Lifted(r) ==
    IF r.res = "NeedMoreData" /\ r.kind = "Exactly"
    THEN [res |-> "NeedMoreData", kind |-> "AtLeast", n |-> r.n, msg |-> r.msg]
    ELSE r

\* C19: lifting (map_exactly_err_to_at_least on a result,
\* expand_size_requirement on an error) turns NeedMoreData(Exactly(n)) into
\* NeedMoreData(AtLeast(n)) with the same n and returns everything else as
\* it was; lifting what was already lifted changes nothing.
C19_Lifting ==
    last.op \in {"decode", "unbuffer_ref", "consume_expected", "unbuffer",
                    "check_expected"}
        => /\ last.lifts >= 1 => Outcome(last) = Lifted(last.prev)
           /\ last.lifts = 2 => Outcome(last) = last.prev

C19_Witness ==
    /\ last.op = "consume_expected"
    /\ last.lifts = 2
    /\ last.res = "NeedMoreData"
    /\ last.kind = "AtLeast"
    /\ last.n = 5


\* frame k holds an encoded PoseReport
PoseFrame(k) ==
    frames[k].size = constant_buffer_size_PoseReport

\* C20: PoseReport encode writes exactly 64 bytes, the sensor, the sensor
\* again as padding, then position and quaternion; decoding those 64 bytes
\* returns an equal report and advances the buffer by exactly 64; with fewer
\* than 64 bytes of room in the sink encode returns OutOfBuffer and writes
\* nothing, with fewer than 64 bytes in the buffer decode returns
\* NeedMoreData and advances nothing.
C20_PoseRoundTrip ==
    /\ Encoded =>
           IF Room < 64
           THEN last.res = "OutOfBuffer" /\ Written = 0
           ELSE /\ last.res = "Ok"
                /\ Written = 64
                /\ SubSeq(WrittenBytes, 1, 4) = BufferInt32(last.msg.sensor)
                /\ SubSeq(WrittenBytes, 5, 8) = BufferInt32(last.msg.sensor)
    /\ \A k \in DOMAIN frames :
           (/\ Decoded
            /\ last.lifts = 0
            /\ PoseFrame(k)
            /\ last.posBefore = frames[k].start
            /\ fed >= FrameEnd(k))
               => /\ last.res = "Ok"
                  /\ last.msg = frames[k].msg
                  /\ pos = last.posBefore + 64
    /\ (Decoded /\ last.lifts = 0 /\ Available < 64)
           => /\ last.res = "NeedMoreData"
              /\ pos = last.posBefore

\* ========================================================================
\* An endpoint on a stream
\* ========================================================================

\* what runs on the stream
Programs ==
    {"connect_tcp", "handle_tcp_connection", "vrpn_async_std_client",
     "vrpn_async_std_client_simple2"}

\* number of message frames a peer writes
MaxPeerFrames == 2

\* the cookies of peers that speak versions 7.35, 7.10 and 8.35, and the
\* 24 bytes of peers that get fields of the cookie wrong
PeerCookies ==
    {[kind |-> "cookie", bad |-> {}, bytes |-> WireCookie(CookieData(v[1], v[2], Some(0)), {})] :
         v \in {<< 7, 35 >>, << 7, 10 >>, << 8, 35 >>}}
        \cup {[kind |-> "cookie", bad |-> bad, bytes |-> WireCookie(BaseCookie, bad)] :
                  bad \in BadSets}

\* the messages a peer sends: bodies of 0 and of 3 bytes
PeerMessages ==
    {NewMessage(<< 1, 2 >>, 0, 0, << >>, Some(1)),
     NewMessage(<< 3, 4 >>, 5, 6, BodyOf(3, 100), Some(2))}

\* the frames of those messages, 24 bytes whose length field is 8, and the
\* first 28 bytes of a frame of 32 that the peer never completes
PeerFrames ==
    {[kind |-> "message", msg |-> m, bytes |-> PeerFrame(m)] : m \in PeerMessages}
        \cup {[kind |-> "bad", msg |-> NoMessage,
               bytes |-> BufferInt32(8) \o Zeros(20)],
              [kind |-> "truncated", msg |-> NoMessage,
               bytes |-> Take(PeerFrame(NewMessage(<< 3, 4 >>, 5, 6, BodyOf(3, 100),
                                                   Some(2))), 28)]}

\* bytes the peer has written and the endpoint has not read
Unread ==
    Len(sink) - fed

InitEndpoint ==
    /\ build \in Builds
    /\ cap = 0
    /\ sink = << >>
    /\ frames = << >>
    /\ fed = 0
    /\ pos = 0
    /\ received = << >>
    /\ needAt = -1
    /\ last = NoCall
    /\ panicked = FALSE
    /\ prog \in Programs
    /\ pc = IF prog = "handle_tcp_connection" THEN "read_cookie" ELSE "connect"
    /\ staged = << >>
    /\ eof = FALSE
    /\ trail = << >>
    /\ now = 0
    /\ first_unanswered_ping = << >>

\* the variables no step of an endpoint changes
EndpointFixed ==
    << build, cap, pos, needAt, last, prog, now, first_unanswered_ping >>

\* the peer writes its cookie, or what it takes for one
PeerWritesCookie(w) ==
    /\ ~eof
    /\ frames = << >>
    /\ sink' = sink \o w.bytes
    /\ frames' = Append(frames, [kind |-> w.kind, bad |-> w.bad, msg |-> NoMessage,
                                 start |-> Len(sink), size |-> Len(w.bytes)])
    /\ UNCHANGED << EndpointFixed, fed, received, panicked, pc, staged, eof, trail >>

\* the peer writes a frame after its cookie
PeerWritesFrame(f) ==
    /\ ~eof
    /\ Len(frames) \in 1..MaxPeerFrames
    /\ frames[Len(frames)].kind # "truncated"
    /\ sink' = sink \o f.bytes
    /\ frames' = Append(frames, [kind |-> f.kind, bad |-> {}, msg |-> f.msg,
                                 start |-> Len(sink), size |-> Len(f.bytes)])
    /\ UNCHANGED << EndpointFixed, fed, received, panicked, pc, staged, eof, trail >>

\* the peer closes the stream
PeerCloses ==
    /\ ~eof
    /\ eof' = TRUE
    /\ UNCHANGED << EndpointFixed, sink, frames, fed, received, panicked, pc, staged,
                    trail >>

\* TcpStream::connect and connect_std: the stream is there, or an IoError
Connect(ok) ==
    /\ pc = "connect"
    /\ pc' = IF ok THEN "write_cookie" ELSE "failed"
    /\ trail' = Append(trail, IF ok THEN "connected" ELSE "IoError")
    /\ UNCHANGED << EndpointFixed, sink, frames, fed, received, panicked, staged, eof >>

\* an endpoint that frames messages as soon as its cookie is written
WriteCookie_SkipsRead ==
    /\ pc = "write_cookie"
    /\ pc' = "next"
    /\ trail' = trail \o << "wrote_cookie", "framing" >>
    /\ UNCHANGED << EndpointFixed, sink, frames, fed, received, panicked, staged, eof >>

\* the endpoint buffers its cookie and writes it all; handle_tcp_connection
\* then applies the message framing
WriteCookie ==
    /\ pc = "write_cookie"
    /\ pc' = IF prog = "handle_tcp_connection" THEN "next" ELSE "read_cookie"
    /\ trail' = IF prog = "handle_tcp_connection"
                THEN trail \o << "wrote_cookie", "framing" >>
                ELSE Append(trail, "wrote_cookie")
    /\ UNCHANGED << EndpointFixed, sink, frames, fed, received, panicked, staged, eof >>

\* where the program goes once the peer's cookie is verified
AfterCookie ==
    CASE prog = "handle_tcp_connection" -> "write_cookie"
      [] prog = "vrpn_async_std_client" -> "read_header"
      [] OTHER -> "next"

\* the outcome of unbuffering and checking the 24 bytes read as the cookie,
\* in the build b
CookieVerdictIn(bytes, b) ==
    LET r == UnbufferCookie(bytes, b)
    IN  IF r.res = "panic" THEN "panic"
        ELSE IF r.res # "Ok" THEN "UnbufferError"
        ELSE IF ~check_ver_nonfile_compatible(r.msg.version) THEN "VersionError"
        ELSE "verified"

\* that outcome in the build of the program
CookieVerdict(bytes) ==
    CookieVerdictIn(bytes, build)

\* an endpoint that goes on whatever the peer's cookie is
ReadCookie_IgnoresVerdict ==
    /\ pc = "read_cookie"
    /\ IF Unread >= COOKIE_SIZE
       THEN LET verdict == CookieVerdict(SubSeq(sink, fed + 1, fed + COOKIE_SIZE))
            IN  /\ fed' = fed + COOKIE_SIZE
                /\ panicked' = (verdict = "panic")
                /\ pc' = AfterCookie
                /\ trail' = IF prog # "handle_tcp_connection"
                            THEN trail \o << "read_cookie", verdict, "framing" >>
                            ELSE trail \o << "read_cookie", verdict >>
       ELSE /\ eof
            /\ fed' = Len(sink)
            /\ pc' = "failed"
            /\ trail' = Append(trail, "IoError")
            /\ UNCHANGED panicked
    /\ UNCHANGED << EndpointFixed, sink, frames, received, staged, eof >>

\* the endpoint reads exactly the 24 bytes of the peer's cookie, unbuffers
\* them and checks the version; a stream that ends before is an IoError
ReadCookie ==
    /\ pc = "read_cookie"
    /\ IF Unread >= COOKIE_SIZE
       THEN LET verdict == CookieVerdict(SubSeq(sink, fed + 1, fed + COOKIE_SIZE))
            IN  /\ fed' = fed + COOKIE_SIZE
                /\ panicked' = (verdict = "panic")
                /\ pc' = IF verdict = "verified" THEN AfterCookie ELSE "failed"
                /\ trail' = IF verdict = "verified" /\ prog # "handle_tcp_connection"
                            THEN trail \o << "read_cookie", "verified", "framing" >>
                            ELSE trail \o << "read_cookie", verdict >>
       ELSE /\ eof
            /\ fed' = Len(sink)
            /\ pc' = "failed"
            /\ trail' = Append(trail, "IoError")
            /\ UNCHANGED panicked
    /\ UNCHANGED << EndpointFixed, sink, frames, received, staged, eof >>

\* the bytes a read of n bytes takes off the stream
ReadBytes(n) ==
    SubSeq(sink, fed + 1, fed + n)

\* the sizes a read into a buffer of size bytes can return: some of the
\* unread bytes, or 0 when the peer has closed and nothing is unread
ReadSizes(size) ==
    IF Unread > 0
    THEN 1..(IF Unread < size THEN Unread ELSE size)
    ELSE IF eof THEN {0} ELSE {}

\* vrpn_async_std_client: the top of the loop clears bytes_mut, reads exactly
\* the 24 bytes of a header, unwraps the size of its length field and stages
\* the header
ReadHeader ==
    /\ pc = "read_header"
    /\ IF Unread >= HEADER_SIZE
       THEN LET header_buf == ReadBytes(HEADER_SIZE)
                size == try_from_length_field(UnbufferU32(Take(header_buf, U32Size)))
            IN  /\ fed' = fed + HEADER_SIZE
                /\ IF size.ok
                   THEN /\ staged' = header_buf
                        /\ pc' = "try_read"
                        /\ UNCHANGED << panicked, trail >>
                   ELSE /\ staged' = << >>
                        /\ pc' = "failed"
                        /\ panicked' = TRUE
                        /\ trail' = Append(trail, "panic")
       ELSE /\ eof
            /\ fed' = Len(sink)
            /\ staged' = << >>
            /\ pc' = "failed"
            /\ trail' = Append(trail, "UnexpectedEof")
            /\ UNCHANGED panicked
    /\ UNCHANGED << EndpointFixed, sink, frames, received, eof >>

\* vrpn_async_std_client: a cursor at the start of bytes_mut, and one
\* try_read_from_buf on it
TryRead ==
    /\ pc = "try_read"
    /\ LET r == try_read_from_buf(staged)
       IN  CASE r.res = "Ok" ->
                    /\ received' = Append(received, r.msg)
                    /\ pc' = "read_header"
                    /\ trail' = Append(trail, "message")
             [] r.res = "NeedMoreData" ->
                    /\ pc' = "read_more"
                    /\ UNCHANGED << received, trail >>
             [] OTHER ->
                    /\ pc' = "failed"
                    /\ trail' = Append(trail, r.res)
                    /\ UNCHANGED received
    /\ UNCHANGED << EndpointFixed, sink, frames, fed, panicked, staged, eof >>

\* a NeedMoreData arm that keeps only the bytes of the last read
ReadMore_Replace(n) ==
    /\ pc = "read_more"
    /\ n \in ReadSizes(READ_SIZE)
    /\ staged' = ReadBytes(n)
    /\ fed' = fed + n
    /\ pc' = "try_read"
    /\ UNCHANGED << EndpointFixed, sink, frames, received, panicked, eof, trail >>

\* vrpn_async_std_client: on NeedMoreData one read into body_buf, its n bytes
\* appended to bytes_mut, and the decode again
ReadMore(n) ==
    /\ pc = "read_more"
    /\ n \in ReadSizes(READ_SIZE)
    /\ staged' = staged \o ReadBytes(n)
    /\ fed' = fed + n
    /\ pc' = "try_read"
    /\ UNCHANGED << EndpointFixed, sink, frames, received, panicked, eof, trail >>

\* a stream of messages that yields a decode error and goes on after the
\* header it could not decode
StreamPoll_SkipsError ==
    /\ pc = "next"
    /\ LET r == try_read_from_buf(staged)
       IN  CASE r.res = "Ok" ->
                    /\ received' = Append(received, r.msg)
                    /\ staged' = r.rest
                    /\ trail' = Append(trail, "message")
                    /\ UNCHANGED pc
             [] r.res = "NeedMoreData" ->
                    /\ pc' = "stream_read"
                    /\ UNCHANGED << received, staged, trail >>
             [] OTHER ->
                    /\ staged' = Drop(staged, HEADER_SIZE)
                    /\ trail' = Append(trail, r.res)
                    /\ UNCHANGED << received, pc >>
    /\ UNCHANGED << EndpointFixed, sink, frames, fed, panicked, eof >>

\* the stream of messages is asked for its next item: one decode on the
\* staging buffer; a frame leaves it, the bytes after the frame stay
StreamPoll ==
    /\ pc = "next"
    /\ LET r == try_read_from_buf(staged)
       IN  CASE r.res = "Ok" ->
                    /\ received' = Append(received, r.msg)
                    /\ staged' = r.rest
                    /\ trail' = Append(trail, "message")
                    /\ UNCHANGED pc
             [] r.res = "NeedMoreData" ->
                    /\ pc' = "stream_read"
                    /\ UNCHANGED << received, staged, trail >>
             [] OTHER ->
                    /\ pc' = "failed"
                    /\ trail' = Append(trail, r.res)
                    /\ UNCHANGED << received, staged >>
    /\ UNCHANGED << EndpointFixed, sink, frames, fed, panicked, eof >>

\* the stream of messages reads: bytes are appended to the staging buffer;
\* at the end of the stream an empty staging buffer ends the sequence and a
\* partial frame is UnexpectedEof
StreamRead(n) ==
    /\ pc = "stream_read"
    /\ n \in ReadSizes(READ_SIZE)
    /\ staged' = staged \o ReadBytes(n)
    /\ fed' = fed + n
    /\ pc' = IF n > 0 THEN "next" ELSE IF staged = << >> THEN "done" ELSE "failed"
    /\ trail' = IF n > 0 THEN trail
                ELSE Append(trail, IF staged = << >> THEN "end" ELSE "UnexpectedEof")
    /\ UNCHANGED << EndpointFixed, sink, frames, received, panicked, eof >>

\* a step of the peer
PeerStep ==
    \/ \E w \in PeerCookies : PeerWritesCookie(w)
    \/ \E f \in PeerFrames : PeerWritesFrame(f)
    \/ PeerCloses

\* a step of the handshake
HandshakeStep ==
    \/ \E ok \in BOOLEAN : Connect(ok)
    \/ WriteCookie
    \/ ReadCookie

\* a step of a receive loop
ReceiveStep ==
    \/ ReadHeader
    \/ TryRead
    \/ \E n \in ReadSizes(READ_SIZE) : ReadMore(n)
    \/ StreamPoll
    \/ \E n \in ReadSizes(READ_SIZE) : StreamRead(n)

NextEndpoint ==
    \/ PeerStep
    \/ HandshakeStep
    \/ ReceiveStep

SpecEndpoint ==
    InitEndpoint /\ [][NextEndpoint]_vars

\* ------------------------------------------------------------------------
\* Claims about the handshake and the receive loops
\* ------------------------------------------------------------------------

\* the events of the trail
Events ==
    {trail[i] : i \in DOMAIN trail}

\* the endpoint holds a stream whose handshake succeeded
Connected ==
    pc \in {"next", "stream_read", "done", "read_header", "try_read", "read_more"}

\* the endpoint has read the 24 bytes the peer sent as its cookie
PeerCookieRead ==
    "read_cookie" \in Events

\* what the peer sent as its cookie parses, and its major version is the
\* local one
PeerCookieCompatible ==
    /\ Len(sink) >= COOKIE_SIZE
    /\ LET c == UnbufferCookie(Take(sink, COOKIE_SIZE), build)
       IN  c.res = "Ok" /\ c.msg.version.major = MAGIC_DATA.major

\* C21: the handshake yields a connected stream only if the peer's 24-byte
\* cookie parses and its major version equals the local major version,
\* whatever its minor version; once a cookie that does not parse or has
\* another major version is read, the handshake has failed with an error
\* and no message is exchanged on the stream
C21_CompatibleCookieOnly ==
    /\ Connected => PeerCookieRead /\ PeerCookieCompatible
    /\ PeerCookieRead /\ ~PeerCookieCompatible =>
           /\ pc = "failed"
           /\ trail[Len(trail)] \in {"UnbufferError", "VersionError"}
           /\ received = << >>
           /\ "message" \notin Events
    /\ PeerCookieRead /\ PeerCookieCompatible =>
           Events \cap {"UnbufferError", "VersionError"} = {}

\* a peer of version 8.35 was refused by handle_tcp_connection, and the
\* message it had sent was not read
C21_Witness_MajorMismatch ==
    /\ prog = "handle_tcp_connection"
    /\ pc = "failed"
    /\ "VersionError" \in Events
    /\ Len(frames) > 1
    /\ Unread > 0

\* C22: in the handshake an endpoint has written its own cookie before it
\* reads the peer's cookie
C22_WritesBeforeReads ==
    PeerCookieRead => "wrote_cookie" \in Events

\* the messages of the frames the peer wrote after its cookie, in wire order
SentMessages ==
    [i \in 1..(Len(frames) - 1) |-> frames[i + 1].msg]

\* the peer wrote a compatible cookie and then whole frames of messages only
WholeFramesOnly ==
    /\ PeerCookieCompatible
    /\ \A i \in 2..Len(frames) : frames[i].kind = "message"

\* the offset in the stream at which the k-th message frame ends
WireEnd(k) ==
    frames[k + 1].start + frames[k + 1].size

\* the receive loop runs or has ended
Receiving ==
    "framing" \in Events

\* C23: on a stream of whole frames, however the reads split it, the receive
\* loop yields the frames' messages in wire order, each once, and fails to
\* decode none; every byte read after the frames yielded so far is staged
\* for the next frame, and a loop that has ended has yielded every frame
C23_FramesInWireOrder ==
    Receiving /\ WholeFramesOnly =>
        /\ Len(received) <= Len(SentMessages)
        /\ received = SubSeq(SentMessages, 1, Len(received))
        /\ ~panicked
        /\ "ParseError" \notin Events
        /\ pc \in {"try_read", "read_more", "next", "stream_read"} =>
               fed = WireEnd(Len(received)) + Len(staged)
        /\ pc \in {"failed", "done"} => received = SentMessages

\* C24: in the loop of vrpn_async_std_client a decode that needs more data
\* leaves the staged bytes as they are and is followed by a read; the read
\* appends the bytes it took off the stream to the staged bytes, none of
\* which is dropped or changed, and is followed by a decode of the staged
\* bytes from their start
C24_StagedBytesKept ==
    [][/\ pc \in {"try_read", "read_more"} =>
              /\ fed' >= fed
              /\ staged' = staged \o SubSeq(sink, fed + 1, fed')
       /\ pc = "try_read" /\ try_read_from_buf(staged).res = "NeedMoreData" =>
              pc' \in {"try_read", "read_more"} /\ fed' = fed
       /\ pc = "read_more" => pc' \in {"read_more", "try_read"}]_vars

\* a message with a body was yielded from a header and the bytes of a later
\* read
C24_Witness ==
    /\ prog = "vrpn_async_std_client"
    /\ pc = "read_header"
    /\ received # << >>
    /\ received[Len(received)].data # << >>
    /\ Len(staged) > HEADER_SIZE

\* the client binaries after a handshake with a peer of version 7.35
InitReceive ==
    /\ build = "release"
    /\ cap = 0
    /\ sink = WireCookie(BaseCookie, {})
    /\ frames = << [kind |-> "cookie", bad |-> {}, msg |-> NoMessage, start |-> 0,
                    size |-> COOKIE_SIZE] >>
    /\ fed = COOKIE_SIZE
    /\ pos = 0
    /\ received = << >>
    /\ needAt = -1
    /\ last = NoCall
    /\ panicked = FALSE
    /\ prog \in {"vrpn_async_std_client", "vrpn_async_std_client_simple2"}
    /\ pc = IF prog = "vrpn_async_std_client" THEN "read_header" ELSE "next"
    /\ staged = << >>
    /\ eof = FALSE
    /\ trail = << "connected", "wrote_cookie", "read_cookie", "verified", "framing" >>
    /\ now = 0
    /\ first_unanswered_ping = << >>

NextReceive ==
    \/ \E f \in PeerFrames : PeerWritesFrame(f)
    \/ PeerCloses
    \/ ReceiveStep

\* the receive loops, their steps taken as long as they can be: the executor
\* runs a task that is ready
SpecReceiveFair ==
    InitReceive /\ [][NextReceive]_vars /\ WF_vars(ReceiveStep)

\* the stream has ended while the staged bytes are part of a frame, and the
\* loop is at its read
EofInFrame ==
    /\ Receiving
    /\ pc \in {"read_more", "stream_read"}
    /\ staged # << >>
    /\ eof
    /\ Unread = 0

\* C25: when the stream ends while the staged bytes are part of a frame, the
\* receive loop ends with UnexpectedEof
C25_EofEndsLoop ==
    EofInFrame ~> (pc = "failed" /\ trail[Len(trail)] = "UnexpectedEof")

\* C26: a decode error other than NeedMoreData ends the receive loop: it is
\* the last event of the loop, which has failed, and a failed loop reads,
\* decodes and yields nothing more
C26_DecodeErrorIsFatal ==
    /\ [](\A i \in DOMAIN trail :
              trail[i] = "ParseError" => i = Len(trail) /\ pc = "failed")
    /\ [][pc = "failed" =>
              /\ pc' = "failed"
              /\ received' = received
              /\ trail' = trail
              /\ fed' = fed
              /\ staged' = staged]_vars

\* the peer sent 24 bytes with length field 8 and then a message: the loop
\* failed with the decode error and the message was not yielded
C26_Witness ==
    /\ pc = "failed"
    /\ trail[Len(trail)] = "ParseError"
    /\ Len(frames) = 3
    /\ frames[2].kind = "bad"
    /\ frames[3].kind = "message"
    /\ received = << >>

\* the events of the handshake
HandshakeEvents ==
    {"connected", "wrote_cookie", "read_cookie", "verified", "UnbufferError",
     "VersionError"}

\* C30: an endpoint that is in its receive loop, or has decoded a frame, has
\* sent its cookie and has read and verified the peer's cookie before the
\* framing started; after the framing started no step of the handshake is
\* taken
C30_HandshakeBeforeFraming ==
    /\ Connected \/ received # << >> \/ "message" \in Events => Receiving
    /\ \A i \in DOMAIN trail :
           trail[i] = "framing" =>
               /\ \E j \in 1..(i - 1) : trail[j] = "wrote_cookie"
               /\ \E j \in 1..(i - 1) : trail[j] = "read_cookie"
               /\ \E j \in 1..(i - 1) : trail[j] = "verified"
               /\ \A j \in (i + 1)..Len(trail) : trail[j] \notin HandshakeEvents
               /\ \A j \in 1..(i - 1) : trail[j] # "message"
    /\ Receiving => pc \notin {"connect", "write_cookie", "read_cookie"}

\* vrpn_async_std_client_simple2 has yielded two messages
C30_Witness ==
    /\ prog = "vrpn_async_std_client_simple2"
    /\ Len(received) = 2
    /\ "UnexpectedEof" \notin Events

\* ========================================================================
\* The ping client
\* ========================================================================

\* number of ticks of the interval
MaxTicks == 7

\* seconds between two ticks of the interval
PING_INTERVAL == 1

\* a threshold of six intervals
RADIO_SILENCE_THRESHOLD_Late ==
    6 * PING_INTERVAL

\* seconds without a pong after which radio silence is reported
RADIO_SILENCE_THRESHOLD ==
    5

\* a ping cycle that stamps every ping it sends
check_ping_cycle_Restamps(state, t, sent) ==
    IF ~sent
    THEN [res |-> "Err", state |-> state, radio_silence |-> None]
    ELSE [res |-> "Ok", state |-> Some(t), radio_silence |-> None]

\* check_ping_cycle at time t with first_unanswered_ping = state: a ping is
\* sent (an error if it cannot be) and stamps an empty state; radio silence
\* is the time since the stamp, once it reaches the threshold
check_ping_cycle(state, t, sent) ==
    IF ~sent
    THEN [res |-> "Err", state |-> state, radio_silence |-> None]
    ELSE LET stamped == IF state = None THEN Some(t) ELSE state
         IN  [res |-> "Ok", state |-> stamped,
              radio_silence |-> IF t - stamped[1] >= RADIO_SILENCE_THRESHOLD
                                THEN Some(t - stamped[1])
                                ELSE None]

InitPing ==
    /\ build = "release"
    /\ cap = 0
    /\ sink = << >>
    /\ frames = << >>
    /\ fed = 0
    /\ pos = 0
    /\ received = << >>
    /\ needAt = -1
    /\ last = NoCall
    /\ panicked = FALSE
    /\ prog = "ping"
    /\ pc = "interval"
    /\ staged = << >>
    /\ eof = FALSE
    /\ trail = << >>
    /\ now = 0
    /\ first_unanswered_ping = None

\* the variables the ping client does not use
PingFixed ==
    << build, cap, sink, frames, fed, pos, received, needAt, last, panicked, prog,
       staged, eof >>

\* a poll_next that ends the stream when it observes radio silence
Tick_EndsOnSilence(sent) ==
    /\ pc = "interval"
    /\ now < MaxTicks * PING_INTERVAL
    /\ LET r == check_ping_cycle(first_unanswered_ping, now, sent)
       IN  /\ first_unanswered_ping' = r.state
           /\ trail' = Append(trail, [at |-> now, item |-> r.res,
                                      radio_silence |-> r.radio_silence])
           /\ pc' = IF r.radio_silence # None THEN "done" ELSE pc
    /\ now' = now + PING_INTERVAL
    /\ UNCHANGED PingFixed

\* poll_next when the interval is ready: the ping cycle runs, an error of it
\* is the item, radio silence is printed, and the item is Ok(()); the
\* interval is ready at 0 and every second after
Tick(sent) ==
    /\ pc = "interval"
    /\ now < MaxTicks * PING_INTERVAL
    /\ LET r == check_ping_cycle(first_unanswered_ping, now, sent)
       IN  /\ first_unanswered_ping' = r.state
           /\ trail' = Append(trail, [at |-> now, item |-> r.res,
                                      radio_silence |-> r.radio_silence])
    /\ now' = now + PING_INTERVAL
    /\ UNCHANGED << PingFixed, pc >>

\* a pong for a ping that is unanswered arrives between two ticks
Pong ==
    /\ pc = "interval"
    /\ first_unanswered_ping # None
    /\ first_unanswered_ping' = None
    /\ trail' = Append(trail, [at |-> now, item |-> "Pong", radio_silence |-> None])
    /\ UNCHANGED << PingFixed, pc, now >>

NextPing ==
    \/ \E sent \in BOOLEAN : Tick(sent)
    \/ Pong

SpecPing ==
    InitPing /\ [][NextPing]_vars

\* ------------------------------------------------------------------------
\* Claims about the ping client
\* ------------------------------------------------------------------------

\* the entries of the trail after the last pong and before entry i that are
\* pings sent
PingsSincePong(i) ==
    {j \in 1..(i - 1) :
         /\ trail[j].item = "Ok"
         /\ \A k \in j..(i - 1) : trail[k].item # "Pong"}

\* the time of the first of the entries js
FirstAt(js) ==
    trail[CHOOSE j \in js : \A k \in js : j <= k].at

\* C27: first_unanswered_ping is empty when no ping was sent since the last
\* pong, and otherwise is the time of the first ping sent since the last
\* pong, however many pings were sent after it
C27_FirstPingStamps ==
    LET pings == PingsSincePong(Len(trail) + 1)
    IN  IF pings = {}
        THEN first_unanswered_ping = None
        ELSE first_unanswered_ping = Some(FirstAt(pings))

\* four pings were sent after a pong and the first of them is the stamp
C27_Witness ==
    /\ \E i \in DOMAIN trail : trail[i].item = "Pong"
    /\ Cardinality(PingsSincePong(Len(trail) + 1)) >= 4
    /\ first_unanswered_ping # None
    /\ first_unanswered_ping[1] < now - 3 * PING_INTERVAL

\* C28: a tick that sends its ping reports radio silence exactly when the
\* time since the first ping sent since the last pong has reached the
\* threshold, and reports that time; with a ping at every tick from 0 on and
\* no pong, the ticks before 5 report nothing and the tick at 5 reports 5
C28_SilenceAtThreshold ==
    \A i \in DOMAIN trail :
        trail[i].item = "Ok" =>
            LET t0 == FirstAt(PingsSincePong(i) \cup {i})
                silent == trail[i].at - t0 >= 5
            IN  /\ trail[i].radio_silence = IF silent THEN Some(trail[i].at - t0) ELSE None
                /\ (\A j \in 1..i : trail[j].item = "Ok") =>
                       (trail[i].radio_silence # None <=> trail[i].at >= 5)

\* six pings at 0..5 without a pong: the tick at 4 reported nothing, the
\* tick at 5 radio silence of 5 seconds
C28_Witness ==
    /\ Len(trail) = 6
    /\ \A j \in 1..6 : trail[j].item = "Ok" /\ trail[j].at = j - 1
    /\ trail[5].radio_silence = None
    /\ trail[6].radio_silence = Some(5)

\* C29: a tick that observes radio silence yields Ok(()), leaves the ping
\* client polling its interval, and the tick of every later second runs the
\* ping cycle
C29_SilenceIsNotFatal ==
    \A i \in DOMAIN trail :
        trail[i].radio_silence # None =>
            /\ trail[i].item = "Ok"
            /\ pc = "interval"
            /\ \A t \in (trail[i].at + 1)..(now - 1) :
                   \E j \in (i + 1)..Len(trail) :
                       trail[j].at = t /\ trail[j].item \in {"Ok", "Err"}

\* radio silence was observed at 5 and the tick at 6 ran the ping cycle and
\* observed it again
C29_Witness ==
    /\ now = 7
    /\ \E i \in DOMAIN trail : trail[i].at = 5 /\ trail[i].radio_silence # None
    /\ trail[Len(trail)].at = 6
    /\ trail[Len(trail)].radio_silence = Some(6)

\* C32: handle_tcp_connection has read and accepted the peer's cookie before
\* it writes its own; once it has read a cookie that does not parse or has
\* another major version it has failed, has written nothing and has not
\* applied the message framing
C32_ServerWritesAfterAccepting ==
    prog = "handle_tcp_connection" =>
        /\ \A i \in DOMAIN trail :
               trail[i] = "wrote_cookie" =>
                   /\ PeerCookieCompatible
                   /\ \E j \in 1..(i - 1) : trail[j] = "verified"
        /\ PeerCookieRead /\ ~PeerCookieCompatible =>
               /\ pc = "failed"
               /\ Events \cap {"wrote_cookie", "framing", "message"} = {}

\* handle_tcp_connection refused a cookie whose dot is a comma and wrote
\* nothing
C32_Witness ==
    /\ prog = "handle_tcp_connection"
    /\ frames # << >>
    /\ frames[1].bad = {"dot"}
    /\ pc = "failed"
    /\ trail = << "read_cookie", "UnbufferError" >>

\* ========================================================================
\* Message frames written by a peer
\* ========================================================================

\* largest length field a peer writes
MaxLengthField == 23

\* the length fields of the frames a peer writes
LengthFields ==
    0..MaxLengthField

\* the bytes a peer writes for a frame with this length field: the header
\* fields of a message and zero bytes up to the padded size of the largest
\* frame
PeerHeader(length_field) ==
    LET fields == BufferInt32(length_field) \o BufferTimeVal(<< 1, 2 >>)
                      \o BufferInt32(0) \o BufferInt32(0) \o BufferInt32(1)
    IN  fields \o Zeros(padded_message_size(MaxBodyLen) - Len(fields))

InitPeerFrame ==
    /\ build \in Builds
    /\ \E length_field \in LengthFields : sink = PeerHeader(length_field)
    /\ cap = Len(sink)
    /\ frames = << >>
    /\ fed = 0
    /\ pos = 0
    /\ received = << >>
    /\ needAt = -1
    /\ last = NoCall
    /\ panicked = FALSE
    /\ NoEndpoint

NextPeerFrame ==
    \/ Feed
    \/ Decode

SpecPeerFrame ==
    InitPeerFrame /\ [][NextPeerFrame]_vars

\* the length field of the frame at the cursor of the latest decode, once
\* its four bytes are in the buffer
LengthFieldRead ==
    UnbufferU32(SubSeq(sink, last.posBefore + 1, last.posBefore + U32Size))

\* C33: Message decode of a frame whose length field is below 20 returns an
\* error: no message, no panic, and no count of missing bytes that comes
\* from a body length below zero
C33_ShortLengthIsError ==
    (/\ Decoded
     /\ Available >= U32Size
     /\ LengthFieldRead < UNPADDED_HEADER_SIZE) =>
        /\ last.res \notin {"Ok", "panic"}
        /\ last.res = "NeedMoreData" =>
               last.n \in 0..padded_message_size(0)

\* ------------------------------------------------------------------------
\* Messages without a sequence number
\* ------------------------------------------------------------------------

\* C34: the frame of a message encoded without a sequence number carries 0
\* in its sequence-number slot, and its decode returns the message with
\* sequence number Some(0) and every other field as encoded
C34_NoSequenceNumber ==
    \A k \in DOMAIN frames :
        frames[k].msg.sequence_number = None =>
            /\ SubSeq(sink, frames[k].start + UNPADDED_HEADER_SIZE + 1,
                      frames[k].start + UNPADDED_HEADER_SIZE + U32Size) = BufferInt32(0)
            /\ (/\ Decoded
                /\ last.posBefore = frames[k].start
                /\ fed >= FrameEnd(k))
                   => /\ last.res = "Ok"
                      /\ last.msg = [frames[k].msg EXCEPT !.sequence_number = Some(0)]

\* ========================================================================
\* Generic messages converted to typed messages
\* ========================================================================

\* number of typed messages the dispatcher is handed
MaxTyped == 2

InitTypedBody ==
    /\ build \in Builds
    /\ cap = 0
    /\ sink = << >>
    /\ frames = << >>
    /\ fed = 0
    /\ pos = 0
    /\ received = << >>
    /\ needAt = -1
    /\ last = NoCall
    /\ panicked = FALSE
    /\ NoEndpoint

\* unbuffer_typed_message_body::<T> is called on the generic message msg;
\* the typed message it returns is handed on
ConvertTyped(T, msg) ==
    /\ ~panicked
    /\ Len(received) < MaxTyped
    /\ LET r == unbuffer_typed_message_body(T, msg, build)
       IN  /\ panicked' = (r.res = "panic")
           /\ received' = IF r.res = "Ok" THEN Append(received, r.msg) ELSE received
           /\ last' = [op |-> "typed", res |-> r.res, kind |-> r.kind, n |-> r.n,
                       msg |-> r.msg, posBefore |-> 0, lenBefore |-> 0,
                       needBefore |-> -1, body_type |-> T, generic |-> msg]
    /\ UNCHANGED << endpoint, build, cap, sink, frames, fed, pos, needAt >>

NextTypedBody ==
    \E T \in BodyTypes, msg \in Messages : ConvertTyped(T, msg)

SpecTypedBody ==
    InitTypedBody /\ [][NextTypedBody]_vars

\* the latest call was unbuffer_typed_message_body
Converted ==
    last.op = "typed"

\* C35: unbuffer_typed_message_body returns a typed message with the time,
\* sender, type and sequence number of the generic message, or fails with
\* ParseError; for a u32 body it fails with ParseError when the generic body
\* has fewer than four bytes and when it has more
C35_TypedBodyParseError ==
    Converted =>
        /\ last.res \in {"Ok", "ParseError"}
        /\ last.res = "Ok" =>
               /\ last.msg.time = last.generic.time
               /\ last.msg.sender = last.generic.sender
               /\ last.msg.message_type = last.generic.message_type
               /\ last.msg.sequence_number = last.generic.sequence_number
        /\ last.body_type = "u32" /\ Len(last.generic.data) # U32Size =>
               last.res = "ParseError"

\* ========================================================================
\* connect_tcp and handle_tcp_connection on the two ends of one stream
\* ========================================================================

\* the two ends; in this part pc, staged, sink, fed and pos hold one value
\* for each end, and frames holds for each end the cookie it writes, with
\* the outcome that unbuffering and checking these 24 bytes has
Sides ==
    {"client", "server"}

Other(e) ==
    IF e = "client" THEN "server" ELSE "client"

\* the minor versions of the two programs; their major version is the same
DuplexMinors ==
    {MAGIC_DATA.minor, 10}

\* the cookie an end of this minor version buffers for write_all
OwnCookie(minor) ==
    BufferCookie(CookieData(MAGIC_DATA.major, minor, Some(0)), COOKIE_SIZE).out

InitDuplex ==
    /\ build \in Builds
    /\ cap = 0
    /\ sink = [e \in Sides |-> << >>]
    /\ fed = [e \in Sides |-> 0]
    /\ pos = [e \in Sides |-> 0]
    /\ received = << >>
    /\ needAt = -1
    /\ last = NoCall
    /\ panicked = FALSE
    /\ prog = [e \in Sides |-> IF e = "client" THEN "connect_tcp"
                               ELSE "handle_tcp_connection"]
    /\ pc = [e \in Sides |-> IF e = "client" THEN "connect" ELSE "read_cookie"]
    /\ \E c \in DuplexMinors, s \in DuplexMinors :
           staged = [e \in Sides |-> OwnCookie(IF e = "client" THEN c ELSE s)]
    /\ frames = [e \in Sides |->
                     [kind |-> "cookie", bytes |-> staged[e],
                      verdict |-> CookieVerdictIn(staged[e], build)]]
    /\ eof = FALSE
    /\ trail = << >>
    /\ now = 0
    /\ first_unanswered_ping = << >>

\* the variables no step of the two ends changes
DuplexFixed ==
    << build, cap, frames, received, needAt, last, panicked, prog, staged, eof, trail,
       now, first_unanswered_ping >>

\* a client that reads the server's cookie before it writes its own
DuplexConnect_ReadsFirst ==
    /\ pc["client"] = "connect"
    /\ pc' = [pc EXCEPT !["client"] = "read_cookie"]
    /\ UNCHANGED << DuplexFixed, sink, fed, pos >>

\* connect_tcp: the stream to the server is connected
DuplexConnect ==
    /\ pc["client"] = "connect"
    /\ pc' = [pc EXCEPT !["client"] = "write_cookie"]
    /\ UNCHANGED << DuplexFixed, sink, fed, pos >>

\* write_all of the own cookie; connect_tcp then reads, handle_tcp_connection
\* applies the message framing and is done
DuplexWrite(e) ==
    /\ pc[e] = "write_cookie"
    /\ sink' = [sink EXCEPT ![Other(e)] = @ \o staged[e]]
    /\ pc' = [pc EXCEPT ![e] = IF e = "server" THEN "open" ELSE "read_cookie"]
    /\ UNCHANGED << DuplexFixed, fed, pos >>

\* the stream carries n more of the bytes written towards e to e
Deliver(e, n) ==
    /\ n \in 1..(Len(sink[e]) - fed[e])
    /\ fed' = [fed EXCEPT ![e] = @ + n]
    /\ UNCHANGED << DuplexFixed, sink, pos, pc >>

\* read_exact of the peer's cookie takes the bytes that have arrived; with
\* the 24th byte the cookie is unbuffered and its version checked
DuplexRead(e) ==
    /\ pc[e] = "read_cookie"
    /\ fed[e] > pos[e]
    /\ Take(sink[e], fed[e]) = Take(frames[Other(e)].bytes, fed[e])
    /\ \E n \in {IF fed[e] < COOKIE_SIZE THEN fed[e] - pos[e] ELSE COOKIE_SIZE - pos[e]} :
           /\ pos' = [pos EXCEPT ![e] = @ + n]
           /\ IF pos[e] + n < COOKIE_SIZE
              THEN UNCHANGED pc
              ELSE \E verdict \in {frames[Other(e)].verdict} :
                       pc' = IF verdict # "verified" THEN [pc EXCEPT ![e] = "failed"]
                             ELSE [pc EXCEPT ![e] = IF e = "server" THEN "write_cookie"
                                                    ELSE "open"]
    /\ UNCHANGED << DuplexFixed, sink, fed >>

\* a step of the program at end e
DuplexStep(e) ==
    \/ e = "client" /\ DuplexConnect
    \/ DuplexWrite(e)
    \/ DuplexRead(e)

\* a step of the stream towards e
DuplexStream(e) ==
    \E n \in 1..COOKIE_SIZE : Deliver(e, n)

NextDuplex ==
    \E e \in Sides : DuplexStep(e) \/ DuplexStream(e)

\* the two futures are polled as long as they can progress, and the stream
\* is reliable: what is written arrives
SpecDuplexFair ==
    /\ InitDuplex
    /\ [][NextDuplex]_vars
    /\ \A e \in Sides : WF_vars(DuplexStep(e)) /\ WF_vars(DuplexStream(e))

\* both handshakes are complete
BothConnected ==
    \A e \in Sides : pc[e] = "open"

\* C31: a connect_tcp client and a handle_tcp_connection server of the same
\* major version on a reliable stream both complete their handshake
C31_BothHandshakesComplete ==
    <>BothConnected

\* both ends are connected, their minor versions differ, and each has read
\* the 24 bytes of the other
C31_Witness ==
    /\ BothConnected
    /\ staged["client"] # staged["server"]
    /\ \A e \in Sides : pos[e] = COOKIE_SIZE /\ Take(sink[e], COOKIE_SIZE) = staged[Other(e)]
====
